---- MODULE Spec2Model ----
(***************************************************************************)
(* CoffeeBoard: the canvas interaction core of src/coffee_board.py and     *)
(* src/image_display.py as a state machine.                                *)
(*                                                                         *)
(* Numbers.  The program computes in floating point.  The model computes   *)
(* the same expressions in exact arithmetic (rounding is not modelled):    *)
(*   - Rat: a rational n/d in lowest terms, d > 0;                        *)
(*   - Num: a finite sum of terms c * q^k, c a non-zero Rat, k an integer, *)
(*     q = 1.15 = 23/20 the wheel zoom factor, kept as the function k |-> c *)
(*     over the exponents that occur.  A zoom scalar is a Num of one term  *)
(*     (IsMono); two such Nums are compared exactly with big naturals      *)
(*     (sequences of base-10000 limbs), because 23^k leaves the machine    *)
(*     integers long before the zoom reaches its bounds.                   *)
(* Equal Nums denote equal reals.                                          *)
(*                                                                         *)
(* The Qt view is modelled by its transform alone: a scene point p is      *)
(* drawn at p * m11 + (tdx, tdy).  The scroll range Qt derives from the    *)
(* scene rectangle, the 2 pixel margin of fitInView and the half pixel pen *)
(* margin of a selectable pixmap item are not modelled.                    *)
(*                                                                         *)
(* Files.  The file system is a function from paths to what is there: a    *)
(* directory, an image of a size, or a text with what json.load makes of   *)
(* it.  A path is its directories and its name split at the last dot; a    *)
(* name is the sequence of its parts between underscores, so that equal    *)
(* strings are equal sequences.  There is one volume, and no file changes  *)
(* but by a save.  The operations of a save that can fail (os.makedirs,    *)
(* shutil.copy2, QPixmap.save, open) fail when the environment says so;    *)
(* QPixmap.save fails by returning False or by raising.  json.dump and     *)
(* json.load carry numbers and strings over unchanged.                     *)
(*                                                                         *)
(* Imports and loads.  A handler is one step.  The answers to the layer    *)
(* dialogs, the file at which the progress task is cancelled and the file  *)
(* at which the progress task raises are inputs of a drop; the record at   *)
(* which a load is cancelled is an input of the load.  A file that does    *)
(* not decode gives the 400 x 300 placeholder of _load_image_data.  The    *)
(* records of a document have the fields save_board writes; of the         *)
(* malformed ones the model has a list element that is no object, a scale  *)
(* of 0 and a position that is the empty list.                             *)
(***************************************************************************)
EXTENDS Integers, Sequences, FiniteSets, TLC

(***************************************************************************)
(* Exact rationals                                                         *)
(***************************************************************************)
Abs(i) == IF i < 0 THEN -i ELSE i

RECURSIVE GCD(_, _)
GCD(a, b) == IF b = 0 THEN a ELSE GCD(b, a % b)

Rat(n, d) ==
    LET g == GCD(Abs(n), Abs(d))
        s == IF d < 0 THEN -1 ELSE 1
    IN  [n |-> (s * n) \div g, d |-> (s * d) \div g]

RInt(i) == [n |-> i, d |-> 1]
RAdd(a, b) == Rat(a.n * b.d + b.n * a.d, a.d * b.d)
RNeg(a) == [n |-> -a.n, d |-> a.d]
RSub(a, b) == RAdd(a, RNeg(b))
RMul(a, b) == Rat(a.n * b.n, a.d * b.d)
RDiv(a, b) == Rat(a.n * b.d, a.d * b.n)
RLt(a, b) == a.n * b.d < b.n * a.d
RLe(a, b) == a.n * b.d <= b.n * a.d
RMin(a, b) == IF RLt(b, a) THEN b ELSE a
RMax(a, b) == IF RLt(a, b) THEN b ELSE a

(***************************************************************************)
(* Big naturals: little-endian sequences of limbs in 0..9999, no leading   *)
(* zero limb; <<>> is 0.                                                   *)
(***************************************************************************)
Limb == 10 ^ 4

RECURSIVE BigFromNat(_)
BigFromNat(i) == IF i = 0 THEN <<>> ELSE <<i % Limb>> \o BigFromNat(i \div Limb)

RECURSIVE BigMulCarry(_, _, _)
BigMulCarry(b, m, carry) ==
    IF b = <<>> THEN BigFromNat(carry)
    ELSE LET t == Head(b) * m + carry
         IN  <<t % Limb>> \o BigMulCarry(Tail(b), m, t \div Limb)

\* b * m for a natural m below 200000 (limb * m + carry stays a machine integer)
BigMulSmall(b, m) == IF m = 0 THEN <<>> ELSE BigMulCarry(b, m, 0)

\* <<start, start * base, ..., start * base^n>>, built by halves
RECURSIVE BigPowersFrom(_, _, _)
BigPowersFrom(start, base, n) ==
    IF n = 0 THEN <<start>>
    ELSE LET h == n \div 2
             a == BigPowersFrom(start, base, h)
         IN  a \o BigPowersFrom(BigMulSmall(a[h + 1], base), base, n - h - 1)

\* <<base^0, base^1, ..., base^n>>
BigPowers(base, n) == BigPowersFrom(<<1>>, base, n)

RECURSIVE BigLtFrom(_, _, _)
BigLtFrom(a, b, i) ==
    IF i = 0 THEN FALSE
    ELSE IF a[i] # b[i] THEN a[i] < b[i]
    ELSE BigLtFrom(a, b, i - 1)

BigLt(a, b) ==
    IF Len(a) # Len(b) THEN Len(a) < Len(b) ELSE BigLtFrom(a, b, Len(a))

\* the powers the comparisons of zoom scalars need, computed once
MaxPow == 90
Powers23 == BigPowers(23, MaxPow)
Powers20 == BigPowers(20, MaxPow)
Pow23(e) == Powers23[e + 1]
Pow20(e) == Powers20[e + 1]

(***************************************************************************)
(* Nums: sums of c * q^k, q = 23/20                                        *)
(***************************************************************************)
NZero == [k \in {} |-> RInt(0)]
NMono(c, e) == IF c.n = 0 THEN NZero ELSE [k \in {e} |-> c]
NRat(c) == NMono(c, 0)
NInt(i) == NRat(RInt(i))
Coef(a, k) == IF k \in DOMAIN a THEN a[k] ELSE RInt(0)

NAdd(a, b) ==
    LET s == [k \in DOMAIN a \cup DOMAIN b |-> RAdd(Coef(a, k), Coef(b, k))]
    IN  [k \in {j \in DOMAIN s : s[j].n # 0} |-> s[k]]
NNeg(a) == [k \in DOMAIN a |-> RNeg(a[k])]
NSub(a, b) == NAdd(a, NNeg(b))

IsMono(a) == Cardinality(DOMAIN a) = 1
MonoExp(m) == CHOOSE k \in DOMAIN m : TRUE
MonoCoef(m) == m[MonoExp(m)]

\* a * m and a / m for a one-term m
NMul(a, m) ==
    LET e == MonoExp(m)
    IN  [k \in {j + e : j \in DOMAIN a} |-> RMul(a[k - e], MonoCoef(m))]
NDiv(a, m) ==
    LET e == MonoExp(m)
    IN  [k \in {j - e : j \in DOMAIN a} |-> RDiv(a[k + e], MonoCoef(m))]

\* a < b for positive one-term a = (n1/d1) q^e1 and b = (n2/d2) q^e2:
\* n1 * d2 * 23^e < n2 * d1 * 20^e with e = e1 - e2 (sides swapped for e < 0)
MonoLt(a, b) ==
    LET e == MonoExp(a) - MonoExp(b)
        l == MonoCoef(a).n * MonoCoef(b).d
        r == MonoCoef(b).n * MonoCoef(a).d
    IN  IF e >= 0
        THEN BigLt(BigMulSmall(Pow23(e), l), BigMulSmall(Pow20(e), r))
        ELSE BigLt(BigMulSmall(Pow20(-e), l), BigMulSmall(Pow23(-e), r))

(***************************************************************************)
(* Configuration constants of CoffeeBoard                                  *)
(***************************************************************************)
min_scale == NRat(Rat(1, 1000))
max_scale == NInt(100)
zoom_in_factor == NMono(RInt(1), 1)
zoom_out_factor == NDiv(NInt(1), zoom_in_factor)

\* setMinimumSize(600, 400): the viewport
ViewW == 600
ViewH == 400

\* _resize_scales, the presets of the Resize menu
ResizeScales ==
    {Rat(1, 4), Rat(1, 2), Rat(3, 4), RInt(1), Rat(3, 2), RInt(2), RInt(3), RInt(4)}

\* the bounds of the interactive resize, max(0.1, min(10.0, new_scale))
HandleMinScale == Rat(1, 10)
HandleMaxScale == RInt(10)

columns == 4
spacing == 10

(***************************************************************************)
(* Inputs                                                                  *)
(***************************************************************************)
\* pointer positions in viewport pixels
Cursors == {<<0, 0>>, <<40, -30>>}

\* a path: the directories above the file, and the file name split at its
\* last dot (os.path.splitext); a name is the sequence of its parts between
\* underscores, so that f"{base}_{counter}" appends a part
Path(dir, base, ext) == [dir |-> dir, base |-> base, ext |-> ext]

Pics == <<<<"pics">>>>

\* the files a drop may name: path, extension, and the size the decoder
\* yields (both sizes have an integer diagonal)
Files ==
    {[path |-> Path(Pics, <<"a">>, ".png"), ext |-> ".png", w |-> 40, h |-> 30],
     [path |-> Path(Pics, <<"b">>, ".jpg"), ext |-> ".jpg", w |-> 4, h |-> 3],
     [path |-> Path(Pics, <<"gone">>, ".png"), ext |-> ".png", w |-> 40, h |-> 30],
     [path |-> Path(Pics, <<"notes">>, ".txt"), ext |-> ".txt", w |-> 0, h |-> 0]}

\* what a path of the file system holds: a directory, an image of a size,
\* or a text (json: what json.load makes of it)
NoDoc == [json |-> "none", images |-> <<>>]
DirEntry == [kind |-> "dir", w |-> 0, h |-> 0, data |-> NoDoc]
ImageEntry(w, h) == [kind |-> "image", w |-> w, h |-> h, data |-> NoDoc]
TextEntry(doc) == [kind |-> "text", w |-> 0, h |-> 0, data |-> doc]

\* the file system with the files of S in it
DiskOf(S) ==
    [p \in {f.path : f \in S} |->
        LET f == CHOOSE g \in S : g.path = p
        IN  IF f.ext = ".txt" THEN TextEntry([json |-> "invalid", images |-> <<>>])
            ELSE ImageEntry(f.w, f.h)]

\* the file system at the start: every file of Files but gone.png
Disk == DiskOf({f \in Files : f.path.base # <<"gone">>})

\* os.path.exists
Exists(d, p) == p \in DOMAIN d

\* None, for current_save_path
NoPath == Path(<<>>, <<>>, "")

\* positions of the pointer during a handle drag
DragPoints == {<<0, 0>>, <<80, 60>>, <<40, 30>>, <<0, 5>>}

MaxIds == 2        \* items created in one behaviour
MaxDrop == 2       \* files in one drop
MaxWheel == 2      \* wheel events in one behaviour (but SpecWheel: unbounded)
MaxMoves == 2      \* pointer moves in one behaviour
MaxMenu == 2       \* menu commands in one behaviour
MaxLayoutItems == 6    \* items on the board of SpecLayout
MaxBoardItems == 2     \* items on the board of SpecBoard
MaxSaves == 2          \* save commands in one behaviour of SpecSave
MaxCommands == 3       \* save and load commands in one behaviour of SpecLoad
MaxRecords == 3        \* records before which a load may be cancelled
MaxImportItems == 2    \* items on the board after a drop of SpecImport
MaxBatch == 20         \* files of the largest drop of SpecImport
MaxImports == 2        \* drops and loads in one behaviour of SpecImport
MaxTracked == 2        \* items created in one behaviour of SpecTrack

VARIABLES
    scale_factor,   \* CoffeeBoard.scale_factor
    m11,            \* the uniform scale of the view transform
    tdx, tdy,       \* the translation of the view transform, in pixels
    panning,        \* CoffeeBoard.panning
    pan_origin,     \* CoffeeBoard.pan_origin
    middleHeld,     \* QApplication.mouseButtons() & Qt.MiddleButton
    items,          \* the ImageDisplay objects alive: id |-> fields
    image_items,    \* CoffeeBoard.image_items, a list of ids
    scene_items,    \* the ImageDisplay objects in the QGraphicsScene
    nextId,         \* the id of the next ImageDisplay created
    updatesEnabled, \* QWidget.updatesEnabled of the view
    cursor,         \* where the pointer is, in viewport pixels
    ev,             \* the event handled last
    nWheel, nMoves, \* wheel events and pointer moves so far
    nMenu,          \* menu commands so far
    disk,           \* the file system: path |-> what is there
    current_save_path   \* CoffeeBoard.current_save_path

viewVars == <<scale_factor, m11, tdx, tdy>>
panVars == <<panning, pan_origin>>
itemVars == <<items, image_items, scene_items, nextId>>
counters == <<nWheel, nMoves, nMenu>>
fileVars == <<disk, current_save_path>>
vars == <<scale_factor, m11, tdx, tdy, panning, pan_origin, middleHeld, items,
          image_items, scene_items, nextId, updatesEnabled, cursor, ev,
          nWheel, nMoves, nMenu, disk, current_save_path>>

(***************************************************************************)
(* The view transform (QGraphicsView.scale / translate / mapToScene)       *)
(***************************************************************************)
\* the view fields as one record, to pass through the steps of a handler
View == [m11 |-> m11, tdx |-> tdx, tdy |-> tdy]

\* scale(s, s): the transform becomes S * M, the translation stays
ViewScale(v, s) == [v EXCEPT !.m11 = NMul(v.m11, s)]

\* translate(x, y): the transform becomes T * M
ViewTranslate(v, x, y) ==
    [v EXCEPT !.tdx = NAdd(v.tdx, NMul(x, v.m11)),
              !.tdy = NAdd(v.tdy, NMul(y, v.m11))]

\* mapToScene(p): the scene point drawn at viewport pixel p
MapToScene(v, p) ==
    [x |-> NDiv(NSub(NInt(p[1]), v.tdx), v.m11),
     y |-> NDiv(NSub(NInt(p[2]), v.tdy), v.m11)]

\* the pan offset P in world units: a scene point p is drawn at (p + P) * zoom
PanOffset == [x |-> NDiv(tdx, m11), y |-> NDiv(tdy, m11)]

(***************************************************************************)
(* wheelEvent                                                              *)
(***************************************************************************)
ZoomFactor(dir) == IF dir = "in" THEN zoom_in_factor ELSE zoom_out_factor

\* faulty variants of WheelClamp: no clamp at all; the value clamped but
\* the view left uncorrected
WheelClampOff(sf) == [sf |-> sf, correction |-> NInt(1)]

WheelClampNoCorrection(sf) ==
    IF MonoLt(sf, min_scale) THEN [sf |-> min_scale, correction |-> NInt(1)]
    ELSE IF MonoLt(max_scale, sf) THEN [sf |-> max_scale, correction |-> NInt(1)]
    ELSE [sf |-> sf, correction |-> NInt(1)]

\* the clamp of the cumulative scale factor: the value kept and the
\* correction applied to the view (1 when no bound was crossed)
WheelClamp(sf) ==
    IF MonoLt(sf, min_scale)
    THEN [sf |-> min_scale, correction |-> NDiv(min_scale, sf)]
    ELSE IF MonoLt(max_scale, sf)
    THEN [sf |-> max_scale, correction |-> NDiv(max_scale, sf)]
    ELSE [sf |-> sf, correction |-> NInt(1)]

\* faulty variant of WheelView: the final translate is left out
WheelViewUnanchored(v, pos, dir) ==
    ViewScale(ViewScale(v, ZoomFactor(dir)),
              WheelClamp(NMul(scale_factor, ZoomFactor(dir))).correction)

WheelView(v, pos, dir) ==
    LET old_pos == MapToScene(v, pos)
        zoom_factor == ZoomFactor(dir)
        v1 == ViewScale(v, zoom_factor)
        cl == WheelClamp(NMul(scale_factor, zoom_factor))
        v2 == ViewScale(v1, cl.correction)
        new_pos == MapToScene(v2, pos)
    IN  ViewTranslate(v2, NSub(new_pos.x, old_pos.x), NSub(new_pos.y, old_pos.y))

WheelEvent(pos, dir) ==
    LET v == WheelView(View, pos, dir)
        cl == WheelClamp(NMul(scale_factor, ZoomFactor(dir)))
    IN  /\ scale_factor' = cl.sf
        /\ m11' = v.m11
        /\ tdx' = v.tdx
        /\ tdy' = v.tdy
        /\ cursor' = pos
        /\ ev' = [type |-> "wheel", dir |-> dir, pos |-> pos,
                  clamped |-> cl.correction # NInt(1), zoom0 |-> scale_factor]
        /\ UNCHANGED <<fileVars, panVars, middleHeld, itemVars, updatesEnabled>>

(***************************************************************************)
(* The pan gesture: mousePressEvent, mouseMoveEvent, mouseReleaseEvent,    *)
(* leaveEvent, enterEvent                                                  *)
(***************************************************************************)
\* mousePressEvent, Qt.MiddleButton
MousePressMiddle(pos) ==
    /\ ~middleHeld
    /\ panning' = TRUE
    /\ pan_origin' = pos
    /\ middleHeld' = TRUE
    /\ cursor' = pos
    /\ ev' = [type |-> "press", button |-> "middle"]
    /\ UNCHANGED <<fileVars, viewVars, itemVars, updatesEnabled>>

\* faulty variants of PanMove: the delta not divided by the zoom; the
\* stored position not replaced
PanMoveUnscaled(pos) ==
    LET delta == <<pos[1] - pan_origin[1], pos[2] - pan_origin[2]>>
        v == ViewTranslate(View, NInt(delta[1]), NInt(delta[2]))
    IN  /\ pan_origin' = pos
        /\ tdx' = v.tdx
        /\ tdy' = v.tdy
        /\ ev' = [type |-> "move", pos |-> pos, panned |-> TRUE, d |-> delta,
                  origin0 |-> pan_origin, pan0 |-> PanOffset]
        /\ UNCHANGED <<scale_factor, m11, panning, items>>

PanMoveAbsolute(pos) ==
    LET delta == <<pos[1] - pan_origin[1], pos[2] - pan_origin[2]>>
        v == ViewTranslate(View, NDiv(NInt(delta[1]), scale_factor),
                                 NDiv(NInt(delta[2]), scale_factor))
    IN  /\ tdx' = v.tdx
        /\ tdy' = v.tdy
        /\ ev' = [type |-> "move", pos |-> pos, panned |-> TRUE, d |-> delta,
                  origin0 |-> pan_origin, pan0 |-> PanOffset]
        /\ UNCHANGED <<scale_factor, m11, panning, pan_origin, items>>

\* the panning branch of mouseMoveEvent
PanMove(pos) ==
    LET delta == <<pos[1] - pan_origin[1], pos[2] - pan_origin[2]>>
        v == ViewTranslate(View, NDiv(NInt(delta[1]), scale_factor),
                                 NDiv(NInt(delta[2]), scale_factor))
    IN  /\ pan_origin' = pos
        /\ tdx' = v.tdx
        /\ tdy' = v.tdy
        /\ ev' = [type |-> "move", pos |-> pos, panned |-> TRUE, d |-> delta,
                  origin0 |-> pan_origin, pan0 |-> PanOffset]
        /\ UNCHANGED <<scale_factor, m11, panning, items>>

(***************************************************************************)
(* ImageDisplay and _ResizeHandle                                          *)
(***************************************************************************)
\* qRound of a rational
RoundR(r) ==
    IF r.n >= 0 THEN (2 * r.n + r.d) \div (2 * r.d)
    ELSE -((2 * (-r.n) + r.d) \div (2 * r.d))

\* original_pixmap.scaled(original_pixmap.size() * s, Qt.KeepAspectRatio):
\* the size of the pixmap shown; a target without area gives the null pixmap
ScaledSize(w, h, s) ==
    LET tw == RoundR(RMul(RInt(w), s))
        th == RoundR(RMul(RInt(h), s))
        rw == (th * w) \div h
    IN  IF tw <= 0 \/ th <= 0 THEN <<0, 0>>
        ELSE IF rw <= tw THEN <<IF rw < 1 THEN 1 ELSE rw, th>>
        ELSE <<tw, IF (tw * h) \div w < 1 THEN 1 ELSE (tw * h) \div w>>

\* ImageDisplay.__init__
NewItem(path, layer, w, h) ==
    [path |-> path, layer |-> layer, w |-> w, h |-> h,
     pos |-> <<0, 0>>, current_scale |-> RInt(1), pw |-> w, ph |-> h,
     z |-> 0, selected |-> FALSE,
     handle |-> "none", hpos |-> <<0, 0>>,
     dragging |-> FALSE, start_pos |-> <<0, 0>>, start_scale |-> RInt(1)]

\* ImageDisplay.update_handle_position
UpdateHandlePosition(it) ==
    IF it.handle # "none" THEN [it EXCEPT !.hpos = <<it.pw, it.ph>>] ELSE it

\* ImageDisplay.resize_image
ResizeImage(it, s) ==
    LET sz == ScaledSize(it.w, it.h, s)
    IN  UpdateHandlePosition([it EXCEPT !.current_scale = s,
                                        !.pw = sz[1], !.ph = sz[2]])

\* ImageDisplay.show_resize_handle: the handle is created on first use
ShowResizeHandle(it) ==
    LET made == IF it.handle = "none"
                THEN [it EXCEPT !.handle = "hidden", !.dragging = FALSE,
                                !.start_pos = <<0, 0>>, !.start_scale = RInt(1)]
                ELSE it
    IN  [UpdateHandlePosition(made) EXCEPT !.handle = "visible"]

\* faulty variant of HideResizeHandle: the handle is deleted
HideResizeHandleDestroys(it) ==
    IF it.handle # "none" THEN [it EXCEPT !.handle = "none"] ELSE it

\* ImageDisplay.hide_resize_handle
HideResizeHandle(it) ==
    IF it.handle # "none" THEN [it EXCEPT !.handle = "hidden"] ELSE it

\* setSelected(b): itemChange(ItemSelectedChange) runs when the state changes
SetSelected(it, b) ==
    IF it.selected = b THEN it
    ELSE [(IF b THEN ShowResizeHandle(it) ELSE HideResizeHandle(it))
             EXCEPT !.selected = b]

\* scene.selectedItems() restricted to ImageDisplay
SelectedItems == {i \in scene_items : items[i].selected}

\* scene.clearSelection()
ClearSelection(its) == [i \in DOMAIN its |-> SetSelected(its[i], FALSE)]

\* integer square root, by bisection
RECURSIVE SqrtBetween(_, _, _)
SqrtBetween(n, lo, hi) ==
    IF hi - lo <= 1 THEN lo
    ELSE LET mid == (lo + hi) \div 2
         IN  IF mid * mid <= n THEN SqrtBetween(n, mid, hi)
             ELSE SqrtBetween(n, lo, mid)

ISqrt(n) == IF n < 2 THEN n ELSE SqrtBetween(n, 1, IF n < 46340 THEN n ELSE 46340)
IsSquare(n) == n >= 0 /\ ISqrt(n) * ISqrt(n) = n

\* r ** 0.5 is modelled where it is rational
HasRSqrt(r) == IsSquare(r.n) /\ IsSquare(r.d)
RSqrt(r) == [n |-> ISqrt(r.n), d |-> ISqrt(r.d)]

\* _ResizeHandle.mouseMoveEvent: the diagonals
OriginalDiagonalSq(it) ==
    LET ow == RMul(RInt(it.w), it.start_scale)
        oh == RMul(RInt(it.h), it.start_scale)
    IN  RAdd(RMul(ow, ow), RMul(oh, oh))

NewDiagonalSq(it, p) ==
    RInt((p[1] - it.pos[1]) * (p[1] - it.pos[1])
         + (p[2] - it.pos[2]) * (p[2] - it.pos[2]))

\* faulty variant of HandleClamp: no upper bound
HandleClampOpen(s) == RMax(HandleMinScale, s)

\* max(0.1, min(10.0, new_scale))
HandleClamp(s) == RMax(HandleMinScale, RMin(HandleMaxScale, s))

\* _ResizeHandle.mouseMoveEvent, for a scene position p of the pointer
HandleDragItem(it, p) ==
    LET original_diagonal == RSqrt(OriginalDiagonalSq(it))
        new_diagonal == RSqrt(NewDiagonalSq(it, p))
    IN  IF it.dragging /\ RLt(RInt(0), original_diagonal)
        THEN ResizeImage(it, HandleClamp(
                 RMul(RDiv(new_diagonal, original_diagonal), it.start_scale)))
        ELSE it

(***************************************************************************)
(* Pointer events on items                                                 *)
(***************************************************************************)
\* what itemAt(pos) may return: nothing, an ImageDisplay of the scene, or the
\* visible resize handle of one (hit-testing itself is Qt's)
HitTargets ==
    {[kind |-> "none", id |-> 0]}
    \cup {[kind |-> "item", id |-> i] : i \in scene_items}
    \cup {[kind |-> "handle", id |-> i] :
             i \in {j \in scene_items : items[j].handle = "visible"}}

IsIntNum(a) == DOMAIN a \subseteq {0} /\ (a # NZero => a[0].d = 1)
IntOf(a) == IF a = NZero THEN 0 ELSE a[0].n
IsIntPoint(sp) == IsIntNum(sp.x) /\ IsIntNum(sp.y)
IntPoint(sp) == <<IntOf(sp.x), IntOf(sp.y)>>

\* the handle that grabbed the mouse: the one a left press started dragging
Grabbers == {i \in scene_items : items[i].handle # "none" /\ items[i].dragging}

\* the branch of mouseMoveEvent taken when not panning: the base class
\* hands the move to the grabbing handle (_ResizeHandle.mouseMoveEvent)
ForwardMove(pos) ==
    LET sp == MapToScene(View, pos)
    IN  /\ Grabbers # {} =>
               /\ IsIntPoint(sp)
               /\ \A i \in Grabbers :
                      /\ HasRSqrt(NewDiagonalSq(items[i], IntPoint(sp)))
                      /\ HasRSqrt(OriginalDiagonalSq(items[i]))
        /\ items' = [i \in DOMAIN items |->
                        IF i \in Grabbers
                        THEN HandleDragItem(items[i], IntPoint(sp))
                        ELSE items[i]]
        /\ ev' = [type |-> "move", pos |-> pos, panned |-> FALSE,
                  d |-> <<0, 0>>, origin0 |-> pan_origin, pan0 |-> PanOffset]
        /\ UNCHANGED <<viewVars, panVars>>

MouseMoveEvent(pos) ==
    /\ IF panning THEN PanMove(pos) ELSE ForwardMove(pos)
    /\ cursor' = pos
    /\ UNCHANGED <<fileVars, middleHeld, image_items, scene_items, nextId, updatesEnabled>>

\* mouseReleaseEvent
MouseReleaseEvent(button) ==
    /\ button = "middle" => middleHeld
    /\ middleHeld' = IF button = "middle" THEN FALSE ELSE middleHeld
    /\ IF button = "middle" /\ panning
       THEN /\ panning' = FALSE
            /\ UNCHANGED items
       ELSE /\ UNCHANGED panning
            \* the base class: _ResizeHandle.mouseReleaseEvent of the grabber
            /\ items' = [i \in DOMAIN items |->
                            IF button = "left" /\ i \in Grabbers
                            THEN [items[i] EXCEPT !.dragging = FALSE]
                            ELSE items[i]]
    /\ ev' = [type |-> "release", button |-> button, panning0 |-> panning]
    /\ UNCHANGED <<fileVars, viewVars, pan_origin, image_items, scene_items, nextId,
                   updatesEnabled, cursor>>

\* faulty variant of FocusEvent: the pan state is never recovered
FocusEventKeep(type) ==
    /\ ev' = [type |-> type, panning0 |-> panning]
    /\ UNCHANGED <<fileVars, viewVars, panVars, middleHeld, itemVars, updatesEnabled,
                   cursor>>

\* leaveEvent and enterEvent
FocusEvent(type) ==
    /\ panning' = IF panning /\ ~middleHeld THEN FALSE ELSE panning
    /\ ev' = [type |-> type, panning0 |-> panning]
    /\ UNCHANGED <<fileVars, viewVars, pan_origin, middleHeld, itemVars, updatesEnabled,
                   cursor>>

LeaveEvent == FocusEvent("leave")
EnterEvent == FocusEvent("enter")

\* the middle button pressed or released where no event reaches the view
ButtonOutside ==
    /\ middleHeld' = ~middleHeld
    /\ ev' = [type |-> "outside"]
    /\ UNCHANGED <<fileVars, viewVars, panVars, itemVars, updatesEnabled, cursor>>

\* mousePressEvent, Qt.LeftButton, with the left button up before: a click
\* on an item or on the background, or the press that starts a handle drag
MousePressLeft(pos, hit, ctrl) ==
    LET cleared == IF hit.kind = "none" THEN ClearSelection(items) ELSE items
        it == cleared[hit.id]
    IN  /\ hit \in HitTargets
        /\ Grabbers = {}
        /\ items' =
             CASE hit.kind = "none" -> cleared
               [] hit.kind = "item" /\ ctrl ->
                    [cleared EXCEPT ![hit.id] = SetSelected(it, ~it.selected)]
               [] hit.kind = "item" /\ ~ctrl ->
                    [i \in DOMAIN cleared |->
                        SetSelected(cleared[i], i = hit.id)]
               [] hit.kind = "handle" ->
                    \* _ResizeHandle.mousePressEvent
                    [cleared EXCEPT ![hit.id] =
                        [it EXCEPT !.dragging = TRUE,
                                   !.start_pos = MapToScene(View, pos),
                                   !.start_scale = it.current_scale]]
        /\ cursor' = pos
        /\ ev' = [type |-> "press", button |-> "left", hit |-> hit]
        /\ UNCHANGED <<fileVars, viewVars, panVars, middleHeld, image_items, scene_items,
                       nextId, updatesEnabled>>

\* faulty variant of ContextSelection: the clicked item always replaces
\* the selection
ContextSelectionReplace(its, hit) ==
    IF hit.kind = "item"
    THEN [i \in DOMAIN its |->
             IF i \in scene_items THEN SetSelected(its[i], i = hit.id) ELSE its[i]]
    ELSE its

\* show_context_menu: the selection the menu is built for
ContextSelection(its, hit) ==
    IF hit.kind = "item" /\ ~its[hit.id].selected
    THEN [i \in DOMAIN its |->
             IF i \in scene_items THEN SetSelected(its[i], i = hit.id) ELSE its[i]]
    ELSE its

\* mousePressEvent, Qt.RightButton
MousePressRight(pos, hit) ==
    /\ hit \in HitTargets
    /\ items' = ContextSelection(items, hit)
    /\ cursor' = pos
    /\ ev' = [type |-> "press", button |-> "right", hit |-> hit]
    /\ UNCHANGED <<fileVars, viewVars, panVars, middleHeld, image_items, scene_items,
                   nextId, updatesEnabled>>

(***************************************************************************)
(* Menu actions on the selection                                           *)
(***************************************************************************)
\* faulty variant of ResizeSelected: every item of the scene is resized
ResizeEverything(its, s) ==
    [i \in DOMAIN its |->
        IF i \in scene_items THEN ResizeImage(its[i], s) ELSE its[i]]

\* resize_selected_images
ResizeSelected(its, s) ==
    [i \in DOMAIN its |->
        IF i \in SelectedItems THEN ResizeImage(its[i], s) ELSE its[i]]

ResizeSelectedImages(s) ==
    /\ items' = ResizeSelected(items, s)
    /\ ev' = [type |-> "resize", scale |-> s]
    /\ UNCHANGED <<fileVars, viewVars, panVars, middleHeld, image_items, scene_items,
                   nextId, updatesEnabled, cursor>>

SeqToSet(q) == {q[k] : k \in 1..Len(q)}
MaxOf(S) == CHOOSE m \in S : \A x \in S : x <= m
MinOf(S) == CHOOSE m \in S : \A x \in S : m <= x
TrackedZ == {items[i].z : i \in SeqToSet(image_items)}

\* faulty variant of Restack: the selected items get the extreme z-value
\* itself
RestackToExtreme(front) ==
    /\ items' =
          IF SelectedItems = {} \/ image_items = <<>> THEN items
          ELSE LET z == IF front THEN MaxOf(TrackedZ) ELSE MinOf(TrackedZ)
               IN  [i \in DOMAIN items |->
                       IF i \in SelectedItems THEN [items[i] EXCEPT !.z = z]
                       ELSE items[i]]
    /\ ev' = [type |-> IF front THEN "front" ELSE "back"]
    /\ UNCHANGED <<fileVars, viewVars, panVars, middleHeld, image_items, scene_items,
                   nextId, updatesEnabled, cursor>>

\* bring_to_front and send_to_back; max() and min() of an empty list raise,
\* and the exception leaves the state as it was
Restack(front) ==
    /\ items' =
          IF SelectedItems = {} \/ image_items = <<>> THEN items
          ELSE LET z == IF front THEN MaxOf(TrackedZ) + 1 ELSE MinOf(TrackedZ) - 1
               IN  [i \in DOMAIN items |->
                       IF i \in SelectedItems THEN [items[i] EXCEPT !.z = z]
                       ELSE items[i]]
    /\ ev' = [type |-> IF front THEN "front" ELSE "back"]
    /\ UNCHANGED <<fileVars, viewVars, panVars, middleHeld, image_items, scene_items,
                   nextId, updatesEnabled, cursor>>

BringToFront == Restack(TRUE)
SendToBack == Restack(FALSE)

Remaining(q, gone) == SelectSeq(q, LAMBDA i : i \notin gone)
Restrict(f, S) == [i \in S |-> f[i]]

\* faulty variant of DeleteSelectedImages: the items leave the scene and
\* stay in image_items
DeleteSelectedFromScene ==
    LET gone == SelectedItems
    IN  /\ scene_items' = scene_items \ gone
        /\ image_items' = image_items
        /\ items' = Restrict(items, scene_items' \cup SeqToSet(image_items'))
        /\ ev' = [type |-> "delete"]
        /\ UNCHANGED <<fileVars, viewVars, panVars, middleHeld, nextId, updatesEnabled,
                       cursor>>

\* delete_selected_images (also the Delete and Backspace keys, keyPressEvent)
DeleteSelectedImages ==
    LET gone == SelectedItems
    IN  /\ scene_items' = scene_items \ gone
        /\ image_items' = Remaining(image_items, gone)
        /\ items' = Restrict(items, scene_items' \cup SeqToSet(image_items'))
        /\ ev' = [type |-> "delete"]
        /\ UNCHANGED <<fileVars, viewVars, panVars, middleHeld, nextId, updatesEnabled,
                       cursor>>

\* faulty variant of ClearAllImages: the cleared board is a new board,
\* without a document
ClearAllImagesForgets ==
    /\ scene_items' = scene_items \ SeqToSet(image_items)
    /\ image_items' = <<>>
    /\ items' = Restrict(items, scene_items')
    /\ current_save_path' = NoPath
    /\ ev' = [type |-> "clear"]
    /\ UNCHANGED <<disk, viewVars, panVars, middleHeld, nextId, updatesEnabled, cursor>>

\* clear_all_images
ClearAllImages ==
    /\ scene_items' = scene_items \ SeqToSet(image_items)
    /\ image_items' = <<>>
    /\ items' = Restrict(items, scene_items')
    /\ ev' = [type |-> "clear"]
    /\ UNCHANGED <<fileVars, viewVars, panVars, middleHeld, nextId, updatesEnabled, cursor>>

(***************************************************************************)
(* fit_all_to_view                                                         *)
(***************************************************************************)
\* the rectangles scene.itemsBoundingRect() unites: each pixmap item, and its
\* handle (a circle of radius 50 about the handle position) once created
ItemRects ==
    {[l |-> items[i].pos[1], t |-> items[i].pos[2],
      r |-> items[i].pos[1] + items[i].pw, b |-> items[i].pos[2] + items[i].ph]
        : i \in scene_items}
    \cup
    {[l |-> items[i].pos[1] + items[i].hpos[1] - 50,
      t |-> items[i].pos[2] + items[i].hpos[2] - 50,
      r |-> items[i].pos[1] + items[i].hpos[1] + 50,
      b |-> items[i].pos[2] + items[i].hpos[2] + 50]
        : i \in {j \in scene_items : items[j].handle # "none"}}

\* QRectF union ignores rectangles without area
SolidRects == {q \in ItemRects : q.r > q.l /\ q.b > q.t}

ItemsBoundingRect ==
    IF SolidRects = {} THEN [l |-> 0, t |-> 0, r |-> 0, b |-> 0]
    ELSE [l |-> MinOf({q.l : q \in SolidRects}), t |-> MinOf({q.t : q \in SolidRects}),
          r |-> MaxOf({q.r : q \in SolidRects}), b |-> MaxOf({q.b : q \in SolidRects})]

\* resetTransform() and fitInView(rect, Qt.KeepAspectRatio): the largest
\* uniform scale at which rect fits the viewport, rect centred
FitInView(rect) ==
    LET bw == rect.r - rect.l
        bh == rect.b - rect.t
        ratio == RMin(Rat(ViewW, bw), Rat(ViewH, bh))
        cx == Rat(rect.l + rect.r, 2)
        cy == Rat(rect.t + rect.b, 2)
    IN  IF bw <= 0 \/ bh <= 0
        THEN [m11 |-> NInt(1), tdx |-> NZero, tdy |-> NZero]
        ELSE [m11 |-> NRat(ratio),
              tdx |-> NRat(RSub(Rat(ViewW, 2), RMul(cx, ratio))),
              tdy |-> NRat(RSub(Rat(ViewH, 2), RMul(cy, ratio)))]

\* faulty variant of FitAllToView: scale_factor is left at the 1.0 it was
\* reset to
FitAllToViewStale ==
    /\ IF image_items = <<>>
       THEN UNCHANGED viewVars
       ELSE LET v == FitInView(ItemsBoundingRect)
            IN  /\ m11' = v.m11
                /\ tdx' = v.tdx
                /\ tdy' = v.tdy
                /\ scale_factor' = NInt(1)
    /\ ev' = [type |-> "fit"]
    /\ UNCHANGED <<fileVars, panVars, middleHeld, itemVars, updatesEnabled, cursor>>

\* fit_all_to_view
FitAllToView ==
    /\ IF image_items = <<>>
       THEN UNCHANGED viewVars
       ELSE LET v == FitInView(ItemsBoundingRect)
            IN  /\ m11' = v.m11
                /\ tdx' = v.tdx
                /\ tdy' = v.tdy
                /\ scale_factor' = v.m11
    /\ ev' = [type |-> "fit"]
    /\ UNCHANGED <<fileVars, panVars, middleHeld, itemVars, updatesEnabled, cursor>>

(***************************************************************************)
(* dropEvent, add_image, _layout_images                                    *)
(***************************************************************************)
SupportedExts == {".jpg", ".jpeg", ".png", ".tif", ".tiff", ".bmp", ".exr"}

\* the board fields an import changes, as one record
Board == [items |-> items, image_items |-> image_items,
          scene_items |-> scene_items, nextId |-> nextId]

\* add_image for a file that is not an EXR: IOError when the path does not
\* exist, else a new ImageDisplay in the scene and in image_items
AddImage(b, f) ==
    IF ~Exists(disk, f.path) THEN b
    ELSE [items |-> [i \in DOMAIN b.items \cup {b.nextId} |->
                        IF i = b.nextId THEN NewItem(f.path, "rgba", f.w, f.h)
                        ELSE b.items[i]],
          image_items |-> Append(b.image_items, b.nextId),
          scene_items |-> b.scene_items \cup {b.nextId},
          nextId |-> b.nextId + 1]

\* the import loop of dropEvent over files_to_load
RECURSIVE AddImages(_, _)
AddImages(b, files) ==
    IF files = <<>> THEN b ELSE AddImages(AddImage(b, Head(files)), Tail(files))

\* faulty variant of LayoutFrom: a row is as high as its last item
RECURSIVE LayoutFromLastHeight(_, _, _, _, _, _)
LayoutFromLastHeight(its, order, k, x, y, max_row_height) ==
    IF k > Len(order) THEN its
    ELSE LET it == its[order[k]]
             placed == [its EXCEPT ![order[k]].pos = <<x, y>>]
         IN  IF k % columns = 0
             THEN LayoutFromLastHeight(placed, order, k + 1, 0,
                                       y + it.ph + spacing, 0)
             ELSE LayoutFromLastHeight(placed, order, k + 1,
                                       x + it.pw + spacing, y, it.ph)

\* _layout_images: item k of image_items at (x, y), rows of `columns` items
RECURSIVE LayoutFrom(_, _, _, _, _, _)
LayoutFrom(its, order, k, x, y, max_row_height) ==
    IF k > Len(order) THEN its
    ELSE LET it == its[order[k]]
             placed == [its EXCEPT ![order[k]].pos = <<x, y>>]
             row == IF it.ph > max_row_height THEN it.ph ELSE max_row_height
         IN  IF k % columns = 0
             THEN LayoutFrom(placed, order, k + 1, 0, y + row + spacing, 0)
             ELSE LayoutFrom(placed, order, k + 1, x + it.pw + spacing, y, row)

\* faulty variant of LayoutImages: the first tracked item stays where it is
LayoutImagesAfterFirst(its, order) == LayoutFrom(its, order, 2, 0, 0, 0)

\* _layout_images over image_items, from (0, 0)
LayoutImages(its, order) == LayoutFrom(its, order, 1, 0, 0, 0)

\* str.lower on the spellings of an extension that the files of the model use
Lower(ext) ==
    CASE ext = ".PNG" -> ".png"
      [] ext = ".EXR" -> ".exr"
      [] OTHER -> ext

\* faulty variant of FilesToLoad: the extension is compared as it is spelled
FilesToLoadAsSpelled(files) ==
    SelectSeq(files, LAMBDA f : f.ext \in SupportedExts)

\* files_to_load of dropEvent: the dropped paths with a supported extension
FilesToLoad(files) ==
    SelectSeq(files, LAMBDA f : Lower(f.ext) \in SupportedExts)

DropEvent(files) ==
    LET files_to_load == FilesToLoad(files)
        b == AddImages(Board, files_to_load)
    IN  /\ IF files_to_load = <<>>
           THEN UNCHANGED <<itemVars, updatesEnabled>>
           ELSE /\ items' = LayoutImages(b.items, b.image_items)
                /\ image_items' = b.image_items
                /\ scene_items' = b.scene_items
                /\ nextId' = b.nextId
                /\ updatesEnabled' =
                      IF Len(files_to_load) > 10 THEN TRUE ELSE updatesEnabled
        /\ ev' = [type |-> "drop"]
        /\ UNCHANGED <<fileVars, viewVars, panVars, middleHeld, cursor>>

\* the drops explored: 1..MaxDrop files
RECURSIVE SeqsUpTo(_, _)
SeqsUpTo(S, n) ==
    IF n = 0 THEN {<<>>}
    ELSE LET shorter == SeqsUpTo(S, n - 1)
         IN  shorter \cup {Append(q, x) : q \in shorter, x \in S}

Drops == SeqsUpTo(Files, MaxDrop) \ {<<>>}

\* a drop that keeps the number of items created within MaxIds
BoundedDrop(files) ==
    /\ AddImages(Board, FilesToLoad(files)).nextId <= MaxIds + 1
    /\ DropEvent(files)

\* the files of the layout specification: three sizes, one of them 100 x 50
LayoutFiles ==
    {[path |-> Path(Pics, <<"wide">>, ".png"), ext |-> ".png", w |-> 100, h |-> 50],
     [path |-> Path(Pics, <<"a">>, ".png"), ext |-> ".png", w |-> 40, h |-> 30],
     [path |-> Path(Pics, <<"tall">>, ".png"), ext |-> ".png", w |-> 30, h |-> 80]}

LayoutDrops == SeqsUpTo(LayoutFiles, MaxDrop) \ {<<>>}

(***************************************************************************)
(* Paths and board documents                                               *)
(***************************************************************************)
\* os.path.normpath: a/b/../c is a/c
RECURSIVE NormDir(_, _)
NormDir(done, rest) ==
    IF rest = <<>> THEN done
    ELSE IF Head(rest) = <<"..">> /\ done # <<>>
    THEN NormDir(SubSeq(done, 1, Len(done) - 1), Tail(rest))
    ELSE NormDir(Append(done, Head(rest)), Tail(rest))

Norm(p) == Path(NormDir(<<>>, p.dir), p.base, p.ext)

\* os.path.exists of a path that may hold ..
ExistsPath(d, p) == Exists(d, Norm(p))

\* os.path.relpath(p, start): up from start to the common directory, then down
RECURSIVE RelDir(_, _)
RelDir(dir, start) ==
    IF dir # <<>> /\ start # <<>> /\ Head(dir) = Head(start)
    THEN RelDir(Tail(dir), Tail(start))
    ELSE [k \in 1..Len(start) |-> <<"..">>] \o dir

RelPath(p, start) == Path(RelDir(NormDir(<<>>, p.dir), NormDir(<<>>, start)), p.base, p.ext)

\* os.path.join(dir, relative path)
Join(dir, rel) == Path(dir \o rel.dir, rel.base, rel.ext)

\* if not file_path.endswith('.json'): file_path += '.json'
\* (the file dialog offers names with the extension .json or with none)
EnsureJson(p) == IF p.ext = ".json" THEN p ELSE Path(p.dir, p.base, ".json")

\* f"{base_name}_images", and the directory of that name beside the document
ImagesName(file_path) == Append(file_path.base, "images")
ImagesFolder(file_path) == Path(file_path.dir, ImagesName(file_path), "")
InFolder(file_path) == Append(file_path.dir, ImagesName(file_path))

\* the file system with entry e written at p
WriteFile(d, p, e) == [q \in DOMAIN d \cup {p} |-> IF q = p THEN e ELSE d[q]]

\* the path of ImageDisplay for a pasted pixmap: "clipboard_image"
ClipboardPath == Path(<<>>, <<"clipboard", "image">>, "")

\* JSON values of the path fields: null or a string
JNull == [t |-> "null", v |-> NoPath]
JStr(p) == [t |-> "str", v |-> p]

\* faulty variant of ImageData: both path fields hold the relative path
ImageDataRelativeOnly(it, rel_path, abs_path) ==
    [object |-> TRUE, path |-> rel_path, absolute_path |-> rel_path,
     position |-> it.pos, scale |-> it.current_scale, z_value |-> it.z,
     layer |-> it.layer]

\* a record of the document, image_data; and a list element that is not a
\* JSON object
ImageData(it, rel_path, abs_path) ==
    [object |-> TRUE,
     path |-> IF rel_path # JNull THEN rel_path ELSE abs_path,
     absolute_path |-> abs_path,
     position |-> it.pos, scale |-> it.current_scale, z_value |-> it.z,
     layer |-> it.layer]

NotAnObject ==
    [object |-> FALSE, path |-> JNull, absolute_path |-> JNull,
     position |-> <<0, 0>>, scale |-> RInt(1), z_value |-> 0, layer |-> "rgba"]

\* what json.load makes of a text: a JSON object with the list "images", a
\* JSON array, or a ValueError
BoardData(images) == [json |-> "object", images |-> images]
ArrayData == [json |-> "array", images |-> <<>>]
InvalidData == [json |-> "invalid", images |-> <<>>]

(***************************************************************************)
(* paste_from_clipboard                                                    *)
(***************************************************************************)
\* viewport().rect().center() of the 600 x 400 viewport
ViewportCenter == <<(ViewW - 1) \div 2, (ViewH - 1) \div 2>>

\* the clipboard holds an image of size w x h; the new item stands at the
\* scene point of the viewport centre (explored where that is a whole point)
PasteFromClipboard(w, h) ==
    LET view_center == MapToScene(View, ViewportCenter)
        image_item == [NewItem(ClipboardPath, "rgba", w, h)
                          EXCEPT !.pos = IntPoint(view_center)]
    IN  /\ IsIntPoint(view_center)
        /\ items' = [i \in DOMAIN items \cup {nextId} |->
                        IF i = nextId THEN image_item ELSE items[i]]
        /\ scene_items' = scene_items \cup {nextId}
        /\ image_items' = Append(image_items, nextId)
        /\ nextId' = nextId + 1
        /\ ev' = [type |-> "paste"]
        /\ UNCHANGED <<fileVars, viewVars, panVars, middleHeld, updatesEnabled,
                       cursor>>

(***************************************************************************)
(* save_board, _prompt_clipboard_save_choice, consolidate_assets           *)
(***************************************************************************)
ClipboardItems == SelectSeq(image_items, LAMBDA i : items[i].path = ClipboardPath)

\* the buttons of the prompt; "Cancelled" is Cancel or the dialog closed
Buttons == {"Consolidate_All", "Consolidate_Clipboard_Only", "Ignore_Clipboard",
            "Cancelled"}

\* faulty variant of PromptClipboardSaveChoice: a cancelled prompt counts as
\* its default button
PromptDefaultOnCancel(clicked) ==
    IF ClipboardItems = <<>> THEN "None"
    ELSE IF clicked = "Cancelled" THEN "Consolidate_All" ELSE clicked

\* _prompt_clipboard_save_choice
PromptClipboardSaveChoice(clicked) ==
    IF ClipboardItems = <<>> THEN "None" ELSE clicked

\* the operation of a save that the environment lets fail: none, the
\* os.makedirs, the shutil.copy2 or the QPixmap.save of the item at an index
\* of image_items (QPixmap.save reports a failure by returning False; the
\* handler also provides for an exception), or the open() of the document
NoFault == [op |-> "none", at |-> 0]
Faults ==
    {NoFault, [op |-> "mkdir", at |-> 0], [op |-> "write", at |-> 0]}
    \cup {[op |-> o, at |-> k] : o \in {"copy", "pixmap_false", "pixmap_raise"},
                                 k \in 1..Len(image_items)}

\* faulty variant of FreeName: the name of the source is taken as it is
FreeNameAsIs(d, folder, base, ext, image_filename, counter) == image_filename

\* the while loop of save_board: the first of name, base_1, base_2, ... that
\* names no file of the folder
RECURSIVE FreeName(_, _, _, _, _, _)
FreeName(d, folder, base, ext, image_filename, counter) ==
    IF ExistsPath(d, Path(folder, image_filename, ext))
    THEN FreeName(d, folder, base, ext, Append(base, ToString(counter)), counter + 1)
    ELSE image_filename

\* one round of the loop of save_board over image_items: the file system, the
\* records and clipboard_counter after it, and whether an exception left
\* the loop
SaveItem(s, k, action, file_path, now, fault) ==
    LET it == items[image_items[k]]
        will_consolidate_any ==
            action \in {"Consolidate_All", "Consolidate_Clipboard_Only"}
        folder == InFolder(file_path)
    IN  IF it.path = ClipboardPath
        THEN IF ~will_consolidate_any THEN s
             ELSE LET clipboard_counter == s.clipboard_counter + 1
                      filename == <<"clipboard", "image", now,
                                    ToString(clipboard_counter)>>
                      new_image_path == Path(folder, filename, ".png")
                      outcome ==
                          IF fault.at = k /\ fault.op \in {"pixmap_false", "pixmap_raise"}
                          THEN fault.op ELSE "written"
                      rel_path ==
                          IF outcome = "pixmap_raise" THEN JNull
                          ELSE JStr(Path(<<ImagesName(file_path)>>, filename, ".png"))
                      abs_path ==
                          IF outcome = "pixmap_raise" THEN JStr(NoPath)
                          ELSE JStr(new_image_path)
                  IN  [s EXCEPT
                         !.clipboard_counter = clipboard_counter,
                         !.disk = IF outcome = "written"
                                  THEN WriteFile(@, new_image_path,
                                                 ImageEntry(it.w, it.h))
                                  ELSE @,
                         !.images = Append(@, ImageData(it, rel_path, abs_path))]
        ELSE IF action = "Consolidate_All"
        THEN LET image_filename ==
                     FreeName(s.disk, folder, it.path.base, it.path.ext,
                              it.path.base, 1)
                 new_image_path == Path(folder, image_filename, it.path.ext)
             IN  IF fault = [op |-> "copy", at |-> k] \/ ~ExistsPath(s.disk, it.path)
                 THEN [s EXCEPT !.error = TRUE, !.raised = [op |-> "copy", at |-> k]]
                 ELSE [s EXCEPT
                         !.disk = WriteFile(@, new_image_path, @[Norm(it.path)]),
                         !.images = Append(@, ImageData(it,
                             JStr(Path(<<ImagesName(file_path)>>, image_filename,
                                       it.path.ext)),
                             JStr(new_image_path)))]
        ELSE [s EXCEPT !.images = Append(@, ImageData(it,
                          JStr(RelPath(it.path, file_path.dir)), JStr(it.path)))]

RECURSIVE SaveItems(_, _, _, _, _, _)
SaveItems(s, k, action, file_path, now, fault) ==
    IF k > Len(image_items) \/ s.error THEN s
    ELSE SaveItems(SaveItem(s, k, action, file_path, now, fault), k + 1,
                   action, file_path, now, fault)

\* the state of save_board before the loop: the images folder made if a
\* consolidating save finds none, or os.makedirs raising
SaveStart(action, file_path, fault) ==
    LET images_folder == ImagesFolder(file_path)
        makes == action \in {"Consolidate_All", "Consolidate_Clipboard_Only"}
                 /\ ~ExistsPath(disk, images_folder)
        fails == makes /\ fault.op = "mkdir"
    IN  [disk |-> IF makes /\ ~fails THEN WriteFile(disk, images_folder, DirEntry)
                  ELSE disk,
         images |-> <<>>, clipboard_counter |-> 0, error |-> fails,
         raised |-> IF fails THEN fault ELSE NoFault]

\* faulty variant of SaveSteps: the document is written whatever happened
SaveStepsRegardless(action, file_path, now, fault) ==
    LET s == SaveItems(SaveStart(action, file_path, fault), 1, action,
                       file_path, now, fault)
    IN  [s EXCEPT !.error = FALSE,
                  !.disk = WriteFile(@, file_path, TextEntry(BoardData(s.images)))]

\* the steps of save_board under the try, for the action and the document
\* path settled before: the file system after them, the records, and the
\* operation that raised, if one did
SaveSteps(action, file_path, now, fault) ==
    LET s == SaveItems(SaveStart(action, file_path, fault), 1, action,
                       file_path, now, fault)
    IN  IF s.error THEN s
        ELSE IF fault.op = "write"
        THEN [s EXCEPT !.error = TRUE, !.raised = fault]
        ELSE [s EXCEPT !.disk = WriteFile(@, file_path,
                                          TextEntry(BoardData(s.images)))]

\* faulty variant of SavePath: the file dialog is shown at every save
SavePathAsksAgain(chosen) == chosen

\* the document path of a save: current_save_path if there is one, else the
\* answer to the file dialog
SavePath(chosen) ==
    IF current_save_path # NoPath THEN current_save_path ELSE chosen

\* faulty variant of SaveBoard: a clipboard item whose bitmap a save has
\* consolidated takes the path of the file written for it
SaveBoardRebinds(consolidate, clicked, chosen, now, fault) ==
    LET action == IF consolidate THEN "Consolidate_All"
                  ELSE PromptClipboardSaveChoice(clicked)
        asked == action # "Cancelled" /\ current_save_path = NoPath
        named == SavePath(chosen)
        file_path == EnsureJson(named)
        s == SaveSteps(action, file_path, now, fault)
    IN  /\ IF action = "Cancelled" \/ named = NoPath
           THEN /\ ev' = [type |-> "save", consolidate |-> consolidate,
                          clicked |-> clicked, result |-> "cancelled",
                          action |-> action, asked |-> asked, file_path |-> NoPath,
                          raised |-> NoFault]
                /\ UNCHANGED fileVars
           ELSE /\ disk' = s.disk
                /\ current_save_path' = IF s.error THEN current_save_path
                                        ELSE file_path
                /\ ev' = [type |-> "save", consolidate |-> consolidate,
                          clicked |-> clicked,
                          result |-> IF s.error THEN "error" ELSE "saved",
                          action |-> action, asked |-> asked,
                          file_path |-> file_path, raised |-> s.raised]
        /\ items' =
              IF action \in {"Consolidate_All", "Consolidate_Clipboard_Only"}
                 /\ named # NoPath /\ ~s.error
              THEN [i \in DOMAIN items |->
                       IF items[i].path = ClipboardPath
                          /\ \E k \in DOMAIN s.images : image_items[k] = i
                       THEN LET k == CHOOSE n \in DOMAIN s.images : image_items[n] = i
                            IN  IF s.images[k].absolute_path.v = NoPath THEN items[i]
                                ELSE [items[i] EXCEPT
                                        !.path = s.images[k].absolute_path.v]
                       ELSE items[i]]
              ELSE items
        /\ UNCHANGED <<viewVars, panVars, middleHeld, image_items, scene_items,
                       nextId, updatesEnabled, cursor>>

\* save_board(consolidate): clicked is the answer to the prompt, chosen the
\* answer to the file dialog (NoPath: cancelled), now the time of day
SaveBoard(consolidate, clicked, chosen, now, fault) ==
    LET action == IF consolidate THEN "Consolidate_All"
                  ELSE PromptClipboardSaveChoice(clicked)
        asked == action # "Cancelled" /\ current_save_path = NoPath
        named == SavePath(chosen)
        file_path == EnsureJson(named)
        s == SaveSteps(action, file_path, now, fault)
    IN  /\ IF action = "Cancelled" \/ named = NoPath
           THEN /\ ev' = [type |-> "save", consolidate |-> consolidate,
                          clicked |-> clicked, result |-> "cancelled",
                          action |-> action, asked |-> asked, file_path |-> NoPath,
                          raised |-> NoFault]
                /\ UNCHANGED fileVars
           ELSE /\ disk' = s.disk
                /\ current_save_path' = IF s.error THEN current_save_path
                                        ELSE file_path
                /\ ev' = [type |-> "save", consolidate |-> consolidate,
                          clicked |-> clicked,
                          result |-> IF s.error THEN "error" ELSE "saved",
                          action |-> action, asked |-> asked,
                          file_path |-> file_path, raised |-> s.raised]
        /\ UNCHANGED <<viewVars, panVars, middleHeld, itemVars, updatesEnabled,
                       cursor>>

\* consolidate_assets
ConsolidateAssets(chosen, now, fault) ==
    SaveBoard(TRUE, "Cancelled", chosen, now, fault)

(***************************************************************************)
(* load_board                                                              *)
(***************************************************************************)
\* the size of the pixmap _load_image_data makes of a file: the image's, or
\* that of the 400 x 300 placeholder when the file does not decode
PixmapSize(d, p) ==
    LET e == d[Norm(p)]
    IN  IF e.kind = "image" THEN <<e.w, e.h>> ELSE <<400, 300>>

\* faulty variant of ResolvePath: the absolute path is tried first
ResolvePathAbsoluteFirst(d, load_dir, img_data) ==
    LET rel_path == img_data.path.v
        abs_path == img_data.absolute_path.v
        test_path == Join(load_dir, rel_path)
    IN  IF abs_path # NoPath /\ ExistsPath(d, abs_path) THEN abs_path
        ELSE IF rel_path # NoPath /\ ExistsPath(d, test_path) THEN test_path
        ELSE NoPath

\* the path a record resolves to: the relative path under load_dir if it
\* names a file, else the absolute path if it does; NoPath if neither
ResolvePath(d, load_dir, img_data) ==
    LET rel_path == img_data.path.v
        abs_path == img_data.absolute_path.v
        test_path == Join(load_dir, rel_path)
    IN  IF rel_path # NoPath /\ ExistsPath(d, test_path) THEN test_path
        ELSE IF abs_path # NoPath /\ ExistsPath(d, abs_path) THEN abs_path
        ELSE NoPath

\* the item load_board makes of a record whose path resolved
LoadedItem(d, image_path, img_data) ==
    LET size == PixmapSize(d, image_path)
        made == NewItem(image_path, img_data.layer, size[1], size[2])
        placed == [made EXCEPT !.pos = img_data.position]
    IN  [ResizeImage(placed, img_data.scale) EXCEPT !.z = img_data.z_value]

\* the entry of missing_images for a record: rel_path or abs_path
Reported(img_data) ==
    IF img_data.path.v # NoPath THEN img_data.path ELSE img_data.absolute_path

\* pos[0] and pos[1] of load_board raise on a position of fewer than two
\* numbers
Restorable(img_data) == Len(img_data.position) >= 2

\* the entry of missing_images for a record whose item was made and whose
\* properties could not be restored: rel_path or abs_path, and the error
Failed(img_data) == [t |-> "error", v |-> Reported(img_data).v]

\* the item of a record after the try block of load_board: with the
\* record's properties, or as ImageDisplay made it when setPos raised
MadeItem(d, image_path, img_data) ==
    IF Restorable(img_data) THEN LoadedItem(d, image_path, img_data)
    ELSE LET size == PixmapSize(d, image_path)
         IN  NewItem(image_path, img_data.layer, size[1], size[2])

\* faulty variant of LoadRecord: the position is not restored
LoadRecordUnplaced(b, d, load_dir, img_data) ==
    LET image_path == ResolvePath(d, load_dir, img_data)
    IN  IF ~img_data.object THEN [b EXCEPT !.error = TRUE]
        ELSE IF image_path = NoPath
        THEN [b EXCEPT !.missing = Append(@, Reported(img_data))]
        ELSE [b EXCEPT
                !.items = [i \in DOMAIN b.items \cup {b.nextId} |->
                              IF i = b.nextId
                              THEN [MadeItem(d, image_path, img_data)
                                       EXCEPT !.pos = <<0, 0>>]
                              ELSE b.items[i]],
                !.image_items = Append(@, b.nextId),
                !.scene_items = @ \cup {b.nextId},
                !.nextId = @ + 1,
                !.missing = IF Restorable(img_data) THEN @
                            ELSE Append(@, Failed(img_data))]

\* one round of the loop of load_board: img_data.get raises on a list
\* element that is not a JSON object; a record that does not resolve is
\* added to missing_images; a record that resolves gets its item in the
\* scene and in image_items before its properties are restored, and is
\* added to missing_images as well if restoring them raises
LoadRecord(b, d, load_dir, img_data) ==
    LET image_path == ResolvePath(d, load_dir, img_data)
    IN  IF ~img_data.object THEN [b EXCEPT !.error = TRUE]
        ELSE IF image_path = NoPath
        THEN [b EXCEPT !.missing = Append(@, Reported(img_data))]
        ELSE [b EXCEPT
                !.items = [i \in DOMAIN b.items \cup {b.nextId} |->
                              IF i = b.nextId
                              THEN MadeItem(d, image_path, img_data)
                              ELSE b.items[i]],
                !.image_items = Append(@, b.nextId),
                !.scene_items = @ \cup {b.nextId},
                !.nextId = @ + 1,
                !.missing = IF Restorable(img_data) THEN @
                            ELSE Append(@, Failed(img_data))]

\* the loop over images_data from index k; it ends at index cancelAt if the
\* progress task is cancelled there (0: never)
RECURSIVE LoadRecords(_, _, _, _, _, _)
LoadRecords(b, d, load_dir, images_data, k, cancelAt) ==
    IF k > Len(images_data) \/ k = cancelAt \/ b.error THEN b
    ELSE LoadRecords(LoadRecord(b, d, load_dir, images_data[k]), d, load_dir,
                     images_data, k + 1, cancelAt)

\* faulty variant of ClearedBoard: nothing is removed
ClearedBoardMerged ==
    [items |-> items, image_items |-> image_items, scene_items |-> scene_items,
     nextId |-> nextId, error |-> FALSE, missing |-> <<>>]

\* the board after clear_all_images
ClearedBoard ==
    [items |-> Restrict(items, scene_items \ SeqToSet(image_items)),
     image_items |-> <<>>,
     scene_items |-> scene_items \ SeqToSet(image_items),
     nextId |-> nextId, error |-> FALSE, missing |-> <<>>]

\* faulty variant of ReadJson: what cannot be read or parsed counts as a
\* board without images
ReadJsonLenient(d, p, unreadable) ==
    IF unreadable \/ ~ExistsPath(d, p) THEN BoardData(<<>>)
    ELSE IF d[Norm(p)].kind # "text" \/ d[Norm(p)].data.json = "invalid"
    THEN BoardData(<<>>)
    ELSE d[Norm(p)].data

\* open(file_path, 'r') and json.load: what a path yields, InvalidData
\* standing for every exception of the two
ReadJson(d, p, unreadable) ==
    IF unreadable \/ ~ExistsPath(d, p) THEN InvalidData
    ELSE IF d[Norm(p)].kind # "text" THEN InvalidData
    ELSE d[Norm(p)].data

\* load_board: chosen is the answer to the file dialog (NoPath: cancelled)
LoadBoard(chosen, unreadable, cancelAt) ==
    LET board_data == ReadJson(disk, chosen, unreadable)
        b == IF board_data.json = "object"
             THEN LoadRecords(ClearedBoard, disk, chosen.dir, board_data.images,
                              1, cancelAt)
             ELSE [ClearedBoard EXCEPT !.error = TRUE]
    IN  IF chosen = NoPath
        THEN /\ ev' = [type |-> "load", file_path |-> chosen,
                       unreadable |-> unreadable,
                       result |-> "cancelled", parsed |-> FALSE,
                       interrupted |-> FALSE, missing |-> <<>>,
                       messages |-> <<>>]
             /\ UNCHANGED <<fileVars, viewVars, panVars, middleHeld, itemVars,
                            updatesEnabled, cursor>>
        ELSE IF board_data.json = "invalid"
        THEN /\ updatesEnabled' = TRUE
             /\ ev' = [type |-> "load", file_path |-> chosen,
                       unreadable |-> unreadable,
                       result |-> "error", parsed |-> FALSE,
                       interrupted |-> FALSE, missing |-> <<>>,
                       messages |-> <<"error">>]
             /\ UNCHANGED <<fileVars, viewVars, panVars, middleHeld, itemVars,
                            cursor>>
        ELSE /\ items' = b.items
             /\ image_items' = b.image_items
             /\ scene_items' = b.scene_items
             /\ nextId' = b.nextId
             /\ updatesEnabled' = TRUE
             /\ current_save_path' = IF b.error THEN current_save_path ELSE chosen
             /\ IF b.error \/ b.image_items = <<>>
                THEN UNCHANGED viewVars
                ELSE LET v == FitInView(ItemsBoundingRect')
                     IN  /\ m11' = v.m11
                         /\ tdx' = v.tdx
                         /\ tdy' = v.tdy
                         /\ scale_factor' = v.m11
             /\ ev' = [type |-> "load", file_path |-> chosen,
                       unreadable |-> unreadable,
                       result |-> IF b.error THEN "error" ELSE "loaded",
                       parsed |-> TRUE,
                       interrupted |-> ~b.error /\ cancelAt \in 1..Len(board_data.images),
                       missing |-> b.missing,
                       messages |-> IF b.error THEN <<"error">>
                                    ELSE IF b.missing # <<>> THEN <<"warning">>
                                    ELSE <<>>]
             /\ UNCHANGED <<disk, panVars, middleHeld, cursor>>

(***************************************************************************)
(* dropEvent with EXR files, cancellation and failures                     *)
(***************************************************************************)
\* CoffeeBoard.preview_format
preview_format == "jpg"

\* the preview formats of EXRImportDialog that the answers of the model use
Formats == {"jpg", "png"}

\* the answer to a layer dialog: Cancel, or OK with the layer and the format
\* of the two combo boxes and the state of the check box
NoAnswer == [accepted |-> FALSE, layer |-> "None", fmt |-> "None", apply_all |-> FALSE]

\* the answers the dialog allows for a file: its layer_combo holds the layers
\* of the file
AnswersTo(f) ==
    {NoAnswer} \cup
    {[accepted |-> TRUE, layer |-> l, fmt |-> e, apply_all |-> a] :
        l \in f.layers, e \in Formats, a \in BOOLEAN}

\* _prompt_for_layer: without layers (the Read node raised, or the file has
\* no channels) no dialog is shown and ('rgba', preview_format, False) is
\* returned; the check box exists only in a batch; shown tells whether the
\* dialog was shown
PromptForLayer(f, is_batch, answer) ==
    IF f.layers = {}
    THEN [layer |-> "rgba", fmt |-> preview_format, apply_all |-> FALSE,
          shown |-> FALSE]
    ELSE IF answer.accepted
    THEN [layer |-> answer.layer, fmt |-> answer.fmt,
          apply_all |-> answer.apply_all /\ is_batch, shown |-> TRUE]
    ELSE [layer |-> "None", fmt |-> "None", apply_all |-> FALSE, shown |-> TRUE]

\* the locals of dropEvent at the start of its loop, with the board and a
\* record of what the loop did: the dialogs shown, the ImageDisplay objects
\* made, and the files whose add_image raised
ImportStart ==
    [items |-> items, image_items |-> image_items, scene_items |-> scene_items,
     nextId |-> nextId, loaded_count |-> 0, apply_to_all |-> FALSE,
     batch_layer |-> "None", batch_format |-> "None", raised |-> FALSE,
     prompts |-> <<>>, created |-> <<>>, failed |-> <<>>,
     stopped |-> "no", stopped_at |-> 0]

\* a dialog that was shown, in the record
Asked(s, k, by, r) ==
    IF r.shown
    THEN [s EXCEPT !.prompts = Append(@, [k |-> k, by |-> by, layer |-> r.layer,
                                          fmt |-> r.fmt, apply_all |-> r.apply_all])]
    ELSE s

\* the last three lines of add_image: ImageDisplay(path, layer,
\* preview_format), addItem, append
CreateImage(s, k, f, layer, fmt) ==
    LET size == PixmapSize(disk, f.path)
    IN  [s EXCEPT
            !.items = [i \in DOMAIN s.items \cup {s.nextId} |->
                          IF i = s.nextId
                          THEN NewItem(f.path, layer, size[1], size[2])
                          ELSE s.items[i]],
            !.image_items = Append(@, s.nextId),
            !.scene_items = @ \cup {s.nextId},
            !.nextId = @ + 1,
            !.created = Append(@, [k |-> k, path |-> f.path, layer |-> layer,
                                   fmt |-> fmt])]

\* add_image(path, layer, preview_format) for file k of the batch: IOError
\* when the path does not exist; an EXR with layer 'rgba' is asked about
\* (is_batch = False), and a cancelled dialog returns without an item
AddImageAs(s, k, f, layer, fmt, answer) ==
    IF ~Exists(disk, f.path)
    THEN [s EXCEPT !.raised = TRUE, !.failed = Append(@, k)]
    ELSE IF Lower(f.ext) = ".exr" /\ layer = "rgba"
    THEN LET r == PromptForLayer(f, FALSE, answer)
             asked == Asked(s, k, "add_image", r)
         IN  IF r.layer = "None" THEN asked
             ELSE CreateImage(asked, k, f, r.layer, r.fmt)
    ELSE CreateImage(s, k, f, layer, fmt)

\* loaded_count += 1 after an add_image that returned
Counted(s) ==
    IF s.raised THEN [s EXCEPT !.raised = FALSE]
    ELSE [s EXCEPT !.loaded_count = @ + 1]

\* the body of the loop of dropEvent for file k; answers.drop answers the
\* dialog of dropEvent and answers.add that of add_image, if they are shown
ImportFile(s, k, f, answers, has_multiple_exrs) ==
    IF Lower(f.ext) = ".exr"
    THEN IF s.apply_to_all /\ s.batch_layer # "None" /\ s.batch_format # "None"
         THEN Counted(AddImageAs(s, k, f, s.batch_layer, s.batch_format,
                                 answers.add))
         ELSE LET r == PromptForLayer(f, has_multiple_exrs, answers.drop)
                  asked == Asked(s, k, "dropEvent", r)
                  kept == IF r.apply_all
                          THEN [asked EXCEPT !.apply_to_all = TRUE,
                                             !.batch_layer = r.layer,
                                             !.batch_format = r.fmt]
                          ELSE asked
              IN  IF r.layer = "None" THEN asked
                  ELSE Counted(AddImageAs(kept, k, f, r.layer, r.fmt, answers.add))
    ELSE Counted(AddImageAs(s, k, f, "rgba", "jpg", answers.add))

\* faulty variant of ImportFrom: the cancellation is looked at after the
\* file, not before it
RECURSIVE ImportFromCancelLate(_, _, _, _, _, _, _)
ImportFromCancelLate(s, files, k, answers, has_multiple_exrs, cancelAt, abortAt) ==
    IF k > Len(files) \/ s.stopped # "no" THEN s
    ELSE IF k = abortAt THEN [s EXCEPT !.stopped = "raised", !.stopped_at = k]
    ELSE LET done == ImportFile(s, k, files[k], answers[k], has_multiple_exrs)
         IN  IF k = cancelAt
             THEN [done EXCEPT !.stopped = "cancelled", !.stopped_at = k]
             ELSE ImportFromCancelLate(done, files, k + 1, answers,
                                       has_multiple_exrs, cancelAt, abortAt)

\* the loop of dropEvent from file k: it ends before file cancelAt if the
\* progress task is cancelled there, and before file abortAt if a call of
\* the progress task raises there (0: never)
RECURSIVE ImportFrom(_, _, _, _, _, _, _)
ImportFrom(s, files, k, answers, has_multiple_exrs, cancelAt, abortAt) ==
    IF k > Len(files) \/ s.stopped # "no" THEN s
    ELSE IF k = cancelAt THEN [s EXCEPT !.stopped = "cancelled", !.stopped_at = k]
    ELSE IF k = abortAt THEN [s EXCEPT !.stopped = "raised", !.stopped_at = k]
    ELSE ImportFrom(ImportFile(s, k, files[k], answers[k], has_multiple_exrs),
                    files, k + 1, answers, has_multiple_exrs, cancelAt, abortAt)

\* dropEvent disables updates for a batch of more than 10 files
Suspends(total_files) == total_files > 10

\* faulty variant of UpdatesAfterImport: no finally, updates are enabled
\* again only after a loop that ended without an exception
UpdatesAfterImportNoFinally(total_files, enabled, raised) ==
    LET during == IF Suspends(total_files) THEN FALSE ELSE enabled
    IN  IF total_files > 10 /\ ~raised THEN TRUE ELSE during

\* updatesEnabled after the try statement of dropEvent: disabled at its
\* start, enabled again in the finally clause
UpdatesAfterImport(total_files, enabled, raised) ==
    LET during == IF Suspends(total_files) THEN FALSE ELSE enabled
    IN  IF total_files > 10 THEN TRUE ELSE during

\* dropEvent with its surroundings: answers[k] are the answers to the
\* dialogs for file k of files_to_load; an exception of the progress task
\* leaves dropEvent after the finally clause, before _layout_images
DropBatch(files, answers, cancelAt, abortAt) ==
    LET files_to_load == FilesToLoad(files)
        total_files == Len(files_to_load)
        exr_files == SelectSeq(files_to_load, LAMBDA f : Lower(f.ext) = ".exr")
        s == ImportFrom(ImportStart, files_to_load, 1, answers,
                        Len(exr_files) > 1, cancelAt, abortAt)
        reported == SelectSeq(files, LAMBDA f : Lower(f.ext) \notin SupportedExts)
    IN  /\ IF files_to_load = <<>>
           THEN UNCHANGED <<itemVars, updatesEnabled>>
           ELSE /\ items' = IF s.stopped = "raised" THEN s.items
                            ELSE LayoutImages(s.items, s.image_items)
                /\ image_items' = s.image_items
                /\ scene_items' = s.scene_items
                /\ nextId' = s.nextId
                /\ updatesEnabled' =
                      UpdatesAfterImport(total_files, updatesEnabled,
                                         s.stopped = "raised")
        /\ ev' = [type |-> "drop", files |-> files, total |-> total_files,
                  cancelAt |-> cancelAt, abortAt |-> abortAt,
                  reported |-> reported,
                  suspended |-> Suspends(total_files),
                  loaded_count |-> IF files_to_load = <<>> THEN 0 ELSE s.loaded_count,
                  prompts |-> IF files_to_load = <<>> THEN <<>> ELSE s.prompts,
                  created |-> IF files_to_load = <<>> THEN <<>> ELSE s.created,
                  failed |-> IF files_to_load = <<>> THEN <<>> ELSE s.failed,
                  stopped |-> IF files_to_load = <<>> THEN "no" ELSE s.stopped,
                  stopped_at |-> IF files_to_load = <<>> THEN 0 ELSE s.stopped_at]
        /\ UNCHANGED <<fileVars, viewVars, panVars, middleHeld, cursor>>

(***************************************************************************)
(* Specifications                                                          *)
(***************************************************************************)
Init ==
    /\ scale_factor = NInt(1)
    /\ m11 = NInt(1)
    /\ tdx = NZero
    /\ tdy = NZero
    /\ panning = FALSE
    /\ pan_origin = <<0, 0>>
    /\ middleHeld = FALSE
    /\ items = <<>>
    /\ image_items = <<>>
    /\ scene_items = {}
    /\ nextId = 1
    /\ updatesEnabled = TRUE
    /\ cursor \in Cursors
    /\ ev = [type |-> "init"]
    /\ nWheel = 0
    /\ nMoves = 0
    /\ nMenu = 0
    /\ disk = Disk
    /\ current_save_path = NoPath

\* SpecWheel: wheel events only, with the pointer at rest; the zoom runs
\* over its whole range
NextWheel ==
    /\ \E dir \in {"in", "out"} : WheelEvent(cursor, dir)
    /\ UNCHANGED counters

SpecWheel == Init /\ [][NextWheel]_vars

\* the pointer starts at the viewport origin
InitOrigin == Init /\ cursor = <<0, 0>>

BoundedWheel ==
    /\ nWheel < MaxWheel
    /\ \E dir \in {"in", "out"} : WheelEvent(cursor, dir)
    /\ nWheel' = nWheel + 1
    /\ UNCHANGED <<nMoves, nMenu>>

BoundedMove ==
    /\ nMoves < MaxMoves
    /\ \E pos \in Cursors : MouseMoveEvent(pos)
    /\ nMoves' = nMoves + 1
    /\ UNCHANGED <<nWheel, nMenu>>

\* SpecPan: the pan gesture with an empty board
NextPan ==
    \/ BoundedWheel
    \/ BoundedMove
    \/ MousePressMiddle(cursor) /\ UNCHANGED counters
    \/ (\E b \in {"left", "middle", "right"} : MouseReleaseEvent(b)) /\ UNCHANGED counters
    \/ LeaveEvent /\ UNCHANGED counters
    \/ EnterEvent /\ UNCHANGED counters
    \/ ButtonOutside /\ UNCHANGED counters

SpecPan == Init /\ [][NextPan]_vars

\* SpecZoomPan: any zoom the wheel reaches, then one pan gesture
NextZoomPan ==
    \/ /\ nMoves = 0
       /\ ~panning
       /\ \E dir \in {"in", "out"} : WheelEvent(cursor, dir)
       /\ UNCHANGED counters
    \/ MousePressMiddle(cursor) /\ UNCHANGED counters
    \/ BoundedMove
    \/ MouseReleaseEvent("middle") /\ UNCHANGED counters

SpecZoomPan == Init /\ [][NextZoomPan]_vars

\* SpecView: zoom, pan, import, fit and clear together
NextView ==
    \/ BoundedWheel
    \/ BoundedMove
    \/ MousePressMiddle(cursor) /\ UNCHANGED counters
    \/ MouseReleaseEvent("middle") /\ UNCHANGED counters
    \/ (\E f \in Files : BoundedDrop(<<f>>)) /\ UNCHANGED counters
    \/ FitAllToView /\ UNCHANGED counters
    \/ ClearAllImages /\ UNCHANGED counters

SpecView == InitOrigin /\ [][NextView]_vars

BoundedMenu ==
    /\ nMenu < MaxMenu
    /\ \/ \E s \in ResizeScales : ResizeSelectedImages(s)
       \/ BringToFront
       \/ SendToBack
    /\ nMenu' = nMenu + 1
    /\ UNCHANGED <<nWheel, nMoves>>

\* pointer moves while a resize handle holds the mouse
BoundedDrag ==
    /\ nMoves < MaxMoves
    /\ Grabbers # {}
    /\ \E pos \in DragPoints : MouseMoveEvent(pos)
    /\ nMoves' = nMoves + 1
    /\ UNCHANGED <<nWheel, nMenu>>

\* a click on an item or on the background
LeftClick ==
    \E hit \in HitTargets, ctrl \in BOOLEAN :
        hit.kind # "handle" /\ MousePressLeft(cursor, hit, ctrl)

\* a press on a visible resize handle
HandlePress ==
    \E hit \in HitTargets : hit.kind = "handle" /\ MousePressLeft(cursor, hit, FALSE)


\* SpecSelect: import, selection, context menu, delete and clear, with the
\* pointer at rest under the initial view
NextSelect ==
    \/ (\E files \in Drops : BoundedDrop(files)) /\ UNCHANGED counters
    \/ LeftClick /\ UNCHANGED counters
    \/ (\E hit \in HitTargets : MousePressRight(cursor, hit)) /\ UNCHANGED counters
    \/ DeleteSelectedImages /\ UNCHANGED counters
    \/ ClearAllImages /\ UNCHANGED counters

SpecSelect == InitOrigin /\ [][NextSelect]_vars

\* SpecPreset: import, selection, the Resize presets and restacking
NextPreset ==
    \/ (\E files \in Drops : BoundedDrop(files)) /\ UNCHANGED counters
    \/ LeftClick /\ UNCHANGED counters
    \/ BoundedMenu

SpecPreset == InitOrigin /\ [][NextPreset]_vars

\* SpecHandle: import, selection and the handle drag under the initial view
NextHandle ==
    \/ (\E files \in Drops : BoundedDrop(files)) /\ UNCHANGED counters
    \/ LeftClick /\ UNCHANGED counters
    \/ HandlePress /\ UNCHANGED counters
    \/ BoundedDrag
    \/ MouseReleaseEvent("left") /\ UNCHANGED counters

SpecHandle == InitOrigin /\ [][NextHandle]_vars

\* SpecLayout: drops of images of three sizes, up to more than one row
InitLayout ==
    /\ scale_factor = NInt(1)
    /\ m11 = NInt(1)
    /\ tdx = NZero
    /\ tdy = NZero
    /\ panning = FALSE
    /\ pan_origin = <<0, 0>>
    /\ middleHeld = FALSE
    /\ items = <<>>
    /\ image_items = <<>>
    /\ scene_items = {}
    /\ nextId = 1
    /\ updatesEnabled = TRUE
    /\ cursor = <<0, 0>>
    /\ ev = [type |-> "init"]
    /\ nWheel = 0
    /\ nMoves = 0
    /\ nMenu = 0
    /\ disk = DiskOf(LayoutFiles)
    /\ current_save_path = NoPath

NextLayout ==
    \E files \in LayoutDrops :
        /\ Len(image_items) + Len(files) <= MaxLayoutItems
        /\ DropEvent(files)
        /\ UNCHANGED counters

SpecLayout == InitLayout /\ [][NextLayout]_vars

\* the boards of SpecSave and SpecLoad
Boards == <<<<"boards">>>>
Shots == <<<<"shots">>>>
PicA == Path(Pics, <<"a">>, ".png")

\* the files a drop may name: two of the same base name
BoardFiles ==
    {[path |-> PicA, ext |-> ".png", w |-> 40, h |-> 30],
     [path |-> Path(Shots, <<"a">>, ".png"), ext |-> ".png", w |-> 4, h |-> 3]}

\* records written by hand: an image that exists, and one that does not
RecordOfA ==
    [object |-> TRUE, path |-> JStr(RelPath(PicA, Boards)),
     absolute_path |-> JStr(PicA), position |-> <<5, 5>>, scale |-> Rat(1, 2),
     z_value |-> 3, layer |-> "rgba"]

RecordOfGone ==
    [object |-> TRUE, path |-> JStr(Path(<<>>, <<"gone">>, ".png")),
     absolute_path |-> JStr(Path(Pics, <<"gone">>, ".png")),
     position |-> <<0, 0>>, scale |-> RInt(1), z_value |-> 0, layer |-> "rgba"]

\* a record of a board that was moved: the relative path names nothing, the
\* absolute path an image
RecordOfMoved ==
    [object |-> TRUE, path |-> JStr(Path(<<>>, <<"moved">>, ".png")),
     absolute_path |-> JStr(Path(Shots, <<"a">>, ".png")),
     position |-> <<7, 0>>, scale |-> RInt(1), z_value |-> 1, layer |-> "rgba"]

\* the documents on disk at the start: a board, a text that is not JSON, a
\* JSON array, and a board whose second list element is not an object
BoardDocs ==
    [p \in {Path(Boards, <<n>>, ".json") : n \in {"good", "bad", "list", "mixed"}} |->
        TextEntry(CASE p.base = <<"good">> -> BoardData(<<RecordOfA, RecordOfGone, RecordOfMoved>>)
                    [] p.base = <<"bad">> -> InvalidData
                    [] p.base = <<"list">> -> ArrayData
                    [] p.base = <<"mixed">> -> BoardData(<<RecordOfA, NotAnObject>>))]

BoardDisk ==
    [p \in DOMAIN DiskOf(BoardFiles) \cup DOMAIN BoardDocs |->
        IF p \in DOMAIN BoardDocs THEN BoardDocs[p] ELSE DiskOf(BoardFiles)[p]]

\* the answers to the file dialogs: a name without and one with the
\* extension, or none; any document on disk, one that is not there, or none
SaveNames == {Path(Boards, <<"one">>, ""), Path(Boards, <<"two">>, ".json"), NoPath}
LoadNames ==
    {p \in DOMAIN disk : p.ext = ".json"}
    \cup {Path(Boards, <<"nothere">>, ".json"), NoPath}

\* the time of day in the name of a saved clipboard image
Times == {"0930", "0931"}

\* the sizes of pasted images
ClipSizes == {<<4, 3>>}

InitBoard ==
    /\ scale_factor = NInt(1)
    /\ m11 = NInt(1)
    /\ tdx = NZero
    /\ tdy = NZero
    /\ panning = FALSE
    /\ pan_origin = <<0, 0>>
    /\ middleHeld = FALSE
    /\ items = <<>>
    /\ image_items = <<>>
    /\ scene_items = {}
    /\ nextId = 1
    /\ updatesEnabled = TRUE
    /\ cursor = <<0, 0>>
    /\ ev = [type |-> "init"]
    /\ nWheel = 0
    /\ nMoves = 0
    /\ nMenu = 0
    /\ disk = BoardDisk
    /\ current_save_path = NoPath

BoardDrop ==
    /\ Len(image_items) < MaxBoardItems
    /\ \E f \in BoardFiles : DropEvent(<<f>>)
    /\ UNCHANGED counters

BoardPaste ==
    /\ Len(image_items) < MaxBoardItems
    /\ \E size \in ClipSizes : PasteFromClipboard(size[1], size[2])
    /\ UNCHANGED counters

\* Save Board: the answers that are not asked for are left out
BoardSave ==
    /\ nMenu < MaxSaves
    /\ \E clicked \in Buttons, chosen \in SaveNames, now \in Times, fault \in Faults :
          /\ ClipboardItems = <<>> => clicked = "Cancelled" /\ now = "0930"
          /\ current_save_path # NoPath => chosen = NoPath
          /\ SaveBoard(FALSE, clicked, chosen, now, fault)
    /\ nMenu' = nMenu + 1
    /\ UNCHANGED <<nWheel, nMoves>>

BoardConsolidate ==
    /\ nMenu < MaxSaves
    /\ \E chosen \in SaveNames, now \in Times, fault \in Faults :
          /\ ClipboardItems = <<>> => now = "0930"
          /\ current_save_path # NoPath => chosen = NoPath
          /\ ConsolidateAssets(chosen, now, fault)
    /\ nMenu' = nMenu + 1
    /\ UNCHANGED <<nWheel, nMoves>>

\* SpecSave: import, paste, and the two save commands with every failure
NextSave ==
    \/ BoardDrop
    \/ BoardPaste
    \/ BoardSave
    \/ BoardConsolidate

SpecSave == InitBoard /\ [][NextSave]_vars

\* the save commands of SpecLoad: no clipboard items, and only the writing
\* of the document may fail
PlainSave ==
    /\ nMenu < MaxCommands
    /\ \E consolidate \in BOOLEAN, chosen \in SaveNames,
          fault \in {NoFault, [op |-> "write", at |-> 0]} :
          /\ current_save_path # NoPath => chosen = NoPath
          /\ SaveBoard(consolidate, "Cancelled", chosen, "0930", fault)
    /\ nMenu' = nMenu + 1
    /\ UNCHANGED <<nWheel, nMoves>>

BoardLoad ==
    /\ nMenu < MaxCommands
    /\ \E chosen \in LoadNames, unreadable \in BOOLEAN, cancelAt \in 0..MaxRecords :
          /\ unreadable \/ chosen = NoPath => cancelAt = 0
          /\ LoadBoard(chosen, unreadable, cancelAt)
    /\ nMenu' = nMenu + 1
    /\ UNCHANGED <<nWheel, nMoves>>

\* SpecLoad: import, save and load
NextLoad ==
    \/ BoardDrop
    \/ PlainSave
    \/ BoardLoad

SpecLoad == InitBoard /\ [][NextLoad]_vars

\* the files a drop of SpecImport may name, with the layers the Read node
\* finds in them: two images (one with its extension in capitals), three
\* EXR files (one of them without channels), an image that is not on disk,
\* a text under the name of an image, and a text
ImportFile_(base, ext, w, h, layers) ==
    [path |-> Path(Pics, <<base>>, ext), ext |-> ext, w |-> w, h |-> h,
     layers |-> layers]

FileA == ImportFile_("a", ".png", 40, 30, {})
FileC == ImportFile_("c", ".PNG", 4, 3, {})
FileX == ImportFile_("x", ".exr", 40, 30, {"depth", "rgba"})
FileY == ImportFile_("y", ".EXR", 4, 3, {"rgba"})
FileFlat == ImportFile_("flat", ".exr", 4, 3, {})
FileGone == ImportFile_("gone", ".png", 40, 30, {})
FileBroken == ImportFile_("broken", ".png", 0, 0, {})
FileNotes == ImportFile_("notes", ".txt", 0, 0, {})

ImportFiles == {FileA, FileC, FileX, FileY, FileFlat, FileGone, FileBroken, FileNotes}

\* a record whose scale is not positive
RecordShrunk ==
    [object |-> TRUE, path |-> JNull, absolute_path |-> JStr(FileC.path),
     position |-> <<50, 0>>, scale |-> RInt(0), z_value |-> 0, layer |-> "rgba"]

\* a record whose position is the empty list
RecordNowhere ==
    [object |-> TRUE, path |-> JNull, absolute_path |-> JStr(FileC.path),
     position |-> <<>>, scale |-> RInt(2), z_value |-> 4, layer |-> "rgba"]

\* the documents of SpecImport: a board with a scale of 0, a board whose
\* second list element is not an object, and a board with a record that
\* names no file and one without a position
ImportDocs ==
    [p \in {Path(Boards, <<n>>, ".json") : n \in {"shrunk", "mixed", "torn"}} |->
        TextEntry(CASE p.base = <<"shrunk">> -> BoardData(<<RecordOfA, RecordShrunk>>)
                    [] p.base = <<"mixed">> -> BoardData(<<RecordOfA, NotAnObject>>)
                    [] p.base = <<"torn">> -> BoardData(<<RecordOfGone, RecordNowhere>>))]

\* the file system of SpecImport: every file but gone.png
ImportDisk ==
    [p \in {f.path : f \in ImportFiles \ {FileGone}} \cup DOMAIN ImportDocs |->
        IF p \in DOMAIN ImportDocs THEN ImportDocs[p]
        ELSE LET f == CHOOSE g \in ImportFiles : g.path = p
             IN  IF f \in {FileBroken, FileNotes} THEN TextEntry(InvalidData)
                 ELSE ImageEntry(f.w, f.h)]

InitImport ==
    /\ scale_factor = NInt(1)
    /\ m11 = NInt(1)
    /\ tdx = NZero
    /\ tdy = NZero
    /\ panning = FALSE
    /\ pan_origin = <<0, 0>>
    /\ middleHeld = FALSE
    /\ items = <<>>
    /\ image_items = <<>>
    /\ scene_items = {}
    /\ nextId = 1
    /\ updatesEnabled = TRUE
    /\ cursor = <<0, 0>>
    /\ ev = [type |-> "init"]
    /\ nWheel = 0
    /\ nMoves = 0
    /\ nMenu = 0
    /\ disk = ImportDisk
    /\ current_save_path = NoPath

\* the answers to the dialogs of one file: for an EXR file any answer to the
\* dialog of dropEvent, and to that of add_image (which has no check box)
\* Cancel or a layer with the format png
AnswerPairs(f) ==
    IF Lower(f.ext) = ".exr"
    THEN {[drop |-> d, add |-> a] :
             d \in AnswersTo(f),
             a \in {x \in AnswersTo(f) : ~x.apply_all /\ x.fmt # "jpg"}}
    ELSE {[drop |-> NoAnswer, add |-> NoAnswer]}

RECURSIVE AnswerSeqs(_)
AnswerSeqs(files) ==
    IF files = <<>> THEN {<<>>}
    ELSE {<<a>> \o q : a \in AnswerPairs(Head(files)), q \in AnswerSeqs(Tail(files))}

ImportDrops == SeqsUpTo(ImportFiles, MaxDrop) \ {<<>>}

\* a drop of one or two files, with every answer to the dialogs, cancelled
\* or interrupted by an exception before any of its files or not at all;
\* on the board at the start or on the board a load left
SmallDrop ==
    /\ nMenu < MaxImports
    /\ ev.type # "drop"
    /\ \E files \in ImportDrops :
          LET files_to_load == FilesToLoad(files)
          IN  /\ Len(image_items) + Len(files_to_load) <= MaxImportItems
              /\ \E answers \in AnswerSeqs(files_to_load),
                    cancelAt \in 0..Len(files_to_load),
                    abortAt \in 0..Len(files_to_load) :
                    /\ cancelAt = 0 \/ abortAt = 0
                    /\ DropBatch(files, answers, cancelAt, abortAt)
    /\ nMenu' = nMenu + 1
    /\ UNCHANGED <<nWheel, nMoves>>

\* n files, a.png and c.PNG in turn
Batch(n) == [k \in 1..n |-> IF k % 2 = 1 THEN FileA ELSE FileC]

BatchSizes == {10, 11, MaxBatch}

\* a drop of 10, 11 or 20 images on an empty board
LargeDrop ==
    /\ nMenu < MaxImports
    /\ image_items = <<>>
    /\ ev.type # "drop"
    /\ \E n \in BatchSizes, cancelAt \in 0..MaxBatch, abortAt \in 0..MaxBatch :
          /\ cancelAt <= n /\ abortAt <= n
          /\ cancelAt = 0 \/ abortAt = 0
          /\ DropBatch(Batch(n), [k \in 1..n |-> [drop |-> NoAnswer, add |-> NoAnswer]],
                       cancelAt, abortAt)
    /\ nMenu' = nMenu + 1
    /\ UNCHANGED <<nWheel, nMoves>>

ImportLoad ==
    /\ nMenu < MaxImports
    /\ \E chosen \in LoadNames, unreadable \in BOOLEAN, cancelAt \in 0..MaxRecords :
          /\ unreadable \/ chosen = NoPath => cancelAt = 0
          /\ LoadBoard(chosen, unreadable, cancelAt)
    /\ nMenu' = nMenu + 1
    /\ UNCHANGED <<nWheel, nMoves>>

\* SpecImport: drops of every kind of file, and loads
NextImport ==
    \/ SmallDrop
    \/ LargeDrop
    \/ ImportLoad

SpecImport == InitImport /\ [][NextImport]_vars

\* the commands of SpecTrack that make items, while the behaviour has made
\* at most MaxTracked; a load runs to its end or is cancelled before its
\* second record
TrackDrop ==
    /\ nextId <= MaxTracked
    /\ \E f \in BoardFiles : DropEvent(<<f>>)
    /\ UNCHANGED counters

TrackPaste ==
    /\ nextId <= MaxTracked
    /\ \E size \in ClipSizes : PasteFromClipboard(size[1], size[2])
    /\ UNCHANGED counters

TrackLoad ==
    /\ nMenu < MaxMenu
    /\ \E chosen \in LoadNames, cancelAt \in {0, 2} :
          /\ chosen = NoPath => cancelAt = 0
          /\ LoadBoard(chosen, FALSE, cancelAt)
    /\ nextId' <= MaxTracked + 1
    /\ nMenu' = nMenu + 1
    /\ UNCHANGED <<nWheel, nMoves>>

TrackRestack ==
    /\ nMenu < MaxMenu
    /\ BringToFront \/ SendToBack
    /\ nMenu' = nMenu + 1
    /\ UNCHANGED <<nWheel, nMoves>>

\* Save Board with every answer to the prompt and to the file dialog
TrackSave ==
    /\ nMenu < MaxMenu
    /\ \E clicked \in Buttons, chosen \in SaveNames :
          /\ ClipboardItems = <<>> => clicked = "Cancelled"
          /\ current_save_path # NoPath => chosen = NoPath
          /\ SaveBoard(FALSE, clicked, chosen, "0930", NoFault)
    /\ nMenu' = nMenu + 1
    /\ UNCHANGED <<nWheel, nMoves>>

\* SpecTrack: import, paste, load, save, selection, restacking, delete and
\* clear
NextTrack ==
    \/ TrackDrop
    \/ TrackPaste
    \/ TrackLoad
    \/ TrackSave
    \/ LeftClick /\ UNCHANGED counters
    \/ TrackRestack
    \/ DeleteSelectedImages /\ UNCHANGED counters
    \/ ClearAllImages /\ UNCHANGED counters

SpecTrack == InitBoard /\ [][NextTrack]_vars

(***************************************************************************)
(* Properties                                                              *)
(***************************************************************************)
\* z is a zoom scalar within [min_scale, max_scale]
ZoomWithin(z) == IsMono(z) /\ ~MonoLt(z, min_scale) /\ ~MonoLt(max_scale, z)

\* C1: from the initial view (zoom 1.0), after every wheel event of any
\* sequence of zoom-in and zoom-out events, scale_factor is within
\* [0.001, 100.0].  (SpecWheel)
C1_WheelKeepsZoomWithinBounds == ev.type = "wheel" => ZoomWithin(scale_factor)

\* a wheel event that the clamp cut back to max_scale
C1_WitnessClampedAtMax ==
    ev.type = "wheel" /\ ev.clamped /\ scale_factor = max_scale

\* C2: in every reachable state, whatever the interleaving of wheel zoom,
\* pan, import, fit_all_to_view and clear, the zoom scalar is within
\* [0.001, 100.0], also right after fit_all_to_view.  (SpecView)
C2_ZoomWithinBoundsInEveryState == ZoomWithin(scale_factor)

\* fit_all_to_view has left the zoom scalar above max_scale
C2_WitnessFitAboveMax == ev.type = "fit" /\ MonoLt(max_scale, scale_factor)

\* the zoom scalar is at the bound that a wheel event towards dir would cross
AtBoundTowards(dir) ==
    \/ dir = "in" /\ scale_factor = max_scale
    \/ dir = "out" /\ scale_factor = min_scale

\* C3: a wheel event issued with the zoom scalar at a bound, in the direction
\* that would cross it, leaves the zoom scalar and the whole view transform
\* (so the pan offset) exactly as they were; repeating it therefore gives the
\* same state again.  (SpecWheel)
C3_WheelAtBoundChangesNothing ==
    [][(ev'.type = "wheel" /\ AtBoundTowards(ev'.dir))
          => /\ scale_factor' = scale_factor
             /\ m11' = m11 /\ tdx' = tdx /\ tdy' = tdy
             /\ PanOffset' = PanOffset]_vars

\* a zoom-in issued at max_scale with the cursor off the origin and the view
\* translated
C3_WitnessZoomInAtMax ==
    /\ ev.type = "wheel" /\ ev.dir = "in" /\ ev.zoom0 = max_scale
    /\ ev.pos # <<0, 0>> /\ tdx # NZero

PanOffsetPlus(P, d, zoom) ==
    [x |-> NAdd(P.x, NDiv(NInt(d[1]), zoom)),
     y |-> NAdd(P.y, NDiv(NInt(d[2]), zoom))]

\* C5: while Panning, a pointer move with screen delta d changes the pan
\* offset by d / zoom and leaves the zoom alone; and a move with delta -v
\* right after a move with delta v restores the pan offset of before the
\* first.  (SpecZoomPan: every zoom the wheel reaches)
C5_PanMovesByDeltaOverZoom ==
    [][(ev'.type = "move" /\ ev'.panned)
          => /\ scale_factor' = scale_factor
             /\ PanOffset' = PanOffsetPlus(PanOffset, ev'.d, scale_factor)
             /\ (/\ ev.type = "move" /\ ev.panned
                 /\ ev'.d = <<-ev.d[1], -ev.d[2]>>)
                   => PanOffset' = ev.pan0]_vars

\* a move by -v right after a move by v # 0, at the zoom bound max_scale
C5_WitnessThereAndBackAtMax ==
    /\ ev.type = "move" /\ ev.panned /\ ev.d = <<-40, 30>>
    /\ nMoves = 2 /\ panning
    /\ scale_factor = max_scale

\* C6: the pan gesture is a two-state machine.  A middle press enters
\* Panning and stores the pointer position; a move while Panning pans by the
\* delta from the stored position and stores the new position; a middle
\* release while Panning returns to Idle; a move while Idle leaves the pan
\* offset alone; a release of another button leaves Panning as it is.
\* (SpecPan)
C6_PanGestureStateMachine ==
    [][/\ panning' \in BOOLEAN
       /\ (ev'.type = "press" /\ ev'.button = "middle")
             => panning' /\ pan_origin' = cursor'
       /\ (ev'.type = "move" /\ panning)
             => /\ panning'
                /\ pan_origin' = cursor'
                /\ PanOffset' =
                      PanOffsetPlus(PanOffset,
                                    <<cursor'[1] - pan_origin[1],
                                      cursor'[2] - pan_origin[2]>>,
                                    scale_factor)
       /\ (ev'.type = "release" /\ ev'.button = "middle" /\ panning)
             => ~panning'
       /\ (ev'.type = "move" /\ ~panning)
             => ~panning' /\ PanOffset' = PanOffset /\ tdx' = tdx /\ tdy' = tdy
       /\ (ev'.type = "release" /\ ev'.button # "middle")
             => panning' = panning]_vars

\* a release of the left button during a pan gesture that has panned
C6_WitnessOtherReleaseWhilePanning ==
    /\ ev.type = "release" /\ ev.button = "left" /\ ev.panning0
    /\ panning /\ tdx # NZero

\* C7: right after a leave or enter event the state is Panning exactly when
\* it was Panning before and the middle button is held: a lost release is
\* recovered by the next leave or enter, a held button keeps Panning.
\* (SpecPan)
C7_LeaveEnterRecoverPan ==
    [][ev'.type \in {"leave", "enter"}
          => /\ panning' = (panning /\ middleHeld)
             /\ middleHeld' = middleHeld
             /\ panning' => middleHeld']_vars

\* an enter event that found Panning with the button up and forced Idle
C7_WitnessEnterForcedIdle ==
    ev.type = "enter" /\ ev.panning0 /\ ~panning /\ ~middleHeld

\* C8: a right-click on an item outside the selection makes the selection
\* exactly that item; a right-click on a selected item leaves the selection,
\* the other selected items included, as it was.  (SpecSelect)
C8_RightClickSelection ==
    [][(ev'.type = "press" /\ ev'.button = "right" /\ ev'.hit.kind = "item")
          => IF ev'.hit.id \in SelectedItems
             THEN SelectedItems' = SelectedItems
             ELSE SelectedItems' = {ev'.hit.id}]_vars

\* a right-click on an unselected item that took the selection from another
C8_WitnessSelectionReplaced ==
    /\ ev.type = "press" /\ ev.button = "right" /\ ev.hit.kind = "item"
    /\ SelectedItems = {ev.hit.id}
    /\ \E j \in scene_items \ {ev.hit.id} : items[j].handle = "hidden"

\* the squares of D0 (the bitmap diagonal at the scale of the drag start) and
\* of D1 (the distance from the item's top-left corner to the pointer at p)
D0Sq(it) ==
    RMul(RInt(it.w * it.w + it.h * it.h), RMul(it.start_scale, it.start_scale))

D1Sq(it, p) ==
    RInt((p[1] - it.pos[1]) * (p[1] - it.pos[1])
         + (p[2] - it.pos[2]) * (p[2] - it.pos[2]))

\* s = clamp((D1 / D0) * s0, 0.1, 10.0), stated on squares:
\* (D1 / D0) * s0 is the x >= 0 with x^2 * D0^2 = D1^2 * s0^2
IsClampedDragScale(s, d0sq, d1sq, s0) ==
    LET xsq_d0sq == RMul(d1sq, RMul(s0, s0))
        ssq_d0sq == RMul(RMul(s, s), d0sq)
    IN  /\ RLe(HandleMinScale, s) /\ RLe(s, HandleMaxScale)
        /\ s = HandleMinScale => RLe(xsq_d0sq, ssq_d0sq)
        /\ s = HandleMaxScale => RLe(ssq_d0sq, xsq_d0sq)
        /\ (s # HandleMinScale /\ s # HandleMaxScale) => ssq_d0sq = xsq_d0sq

\* C9: during a handle drag every drag-move sets the item's scale to
\* clamp((D1 / D0) * scale_at_drag_start, 0.1, 10.0), so the scale is within
\* [0.1, 10.0]; the release ends the gesture and keeps the scale.
\* (SpecHandle; the view is the initial one, so the pointer's scene position
\* is its viewport position)
C9_HandleDragScale ==
    [][/\ (ev'.type = "move" /\ ~ev'.panned)
             => \A i \in Grabbers :
                   /\ IsClampedDragScale(items'[i].current_scale, D0Sq(items[i]),
                                         D1Sq(items[i], cursor'),
                                         items[i].start_scale)
                   /\ items'[i].dragging
       /\ (ev'.type = "release" /\ ev'.button = "left")
             => \A i \in scene_items :
                   /\ items'[i].current_scale = items[i].current_scale
                   /\ ~items'[i].dragging]_vars

\* a drag-move of a gesture begun at scale 10 that set the scale to 1
C9_WitnessDragFromTenToOne ==
    /\ ev.type = "move" /\ ~ev.panned
    /\ \E i \in Grabbers :
          items[i].start_scale = RInt(10) /\ items[i].current_scale = RInt(1)

\* C10: a Resize command with preset s sets the scale of every selected item
\* to exactly s and leaves scale, position and z of every other item alone.
\* (SpecPreset)
C10_PresetResize ==
    [][ev'.type = "resize"
          => /\ ev'.scale \in ResizeScales
             /\ \A i \in scene_items :
                   IF items[i].selected
                   THEN items'[i].current_scale = ev'.scale
                   ELSE /\ items'[i].current_scale = items[i].current_scale
                        /\ items'[i].pos = items[i].pos
                        /\ items'[i].z = items[i].z]_vars

\* a resize to 4 of the selected item beside an unselected one that an
\* earlier resize left at 0.25
C10_WitnessResizeBesideUnselected ==
    /\ ev.type = "resize" /\ ev.scale = RInt(4)
    /\ \E i, j \in scene_items :
          /\ items[i].selected /\ items[i].current_scale = RInt(4)
          /\ ~items[j].selected /\ items[j].current_scale = Rat(1, 4)
\* the grid of _layout_images, item by item: the row of the k-th tracked
\* item, the height of a row, the left edge of the k-th item and the top of
\* a row
Tracked(k) == items[image_items[k]]
RowOf(k) == (k - 1) \div columns
RowHeight(r) ==
    MaxOf({0} \cup {Tracked(k).ph : k \in {j \in 1..Len(image_items) : RowOf(j) = r}})

RECURSIVE GridX(_)
GridX(k) ==
    IF (k - 1) % columns = 0 THEN 0
    ELSE GridX(k - 1) + Tracked(k - 1).pw + 10

RECURSIVE GridY(_)
GridY(r) == IF r = 0 THEN 0 ELSE GridY(r - 1) + RowHeight(r - 1) + 10

FourWideThenOne ==
    /\ Len(image_items) >= 5
    /\ \A k \in 1..4 : Tracked(k).pw = 100 /\ Tracked(k).ph = 50

\* C11: after a drop that imported files, the tracked items stand in
\* insertion order in rows of four: an item's x is the sum of (width + 10)
\* of the items before it in its row, a row's y is the y of the row above
\* plus the largest height in that row plus 10; four 100 x 50 items and a
\* fifth stand at (0,0), (110,0), (220,0), (330,0), (0,60)
C11_GridLayout ==
    ev.type = "drop" =>
        /\ \A k \in 1..Len(image_items) :
               Tracked(k).pos = <<GridX(k), GridY(RowOf(k))>>
        /\ FourWideThenOne =>
               <<Tracked(1).pos, Tracked(2).pos, Tracked(3).pos, Tracked(4).pos,
                 Tracked(5).pos>>
               = <<<<0, 0>>, <<110, 0>>, <<220, 0>>, <<330, 0>>, <<0, 60>>>>

\* four 100 x 50 items and two more, the second row under a first row whose
\* tallest item is not its last
C11_WitnessSecondRow ==
    /\ ev.type = "drop"
    /\ Len(image_items) = 6
    /\ Tracked(1).ph = 80
    /\ Tracked(4).ph = 30
    /\ Tracked(6).pos = <<Tracked(5).pw + 10, 90>>

\* what a record keeps of the k-th tracked item
Saved(its, order, k) ==
    [position |-> its[order[k]].pos, scale |-> its[order[k]].current_scale,
     z_value |-> its[order[k]].z, layer |-> its[order[k]].layer]

\* the step is a complete load of the document that the step before wrote
\* in the mode Consolidate_All
LoadsBackConsolidated ==
    /\ ev.type = "save"
    /\ ev.result = "saved"
    /\ ev.action = "Consolidate_All"
    /\ ev'.type = "load"
    /\ ev'.result = "loaded"
    /\ ~ev'.interrupted
    /\ current_save_path' = ev.file_path

\* C12: loading the document that a Consolidate_All save of a board of
\* path-backed items has just written gives as many tracked items, in the
\* same order, each with the position, scale, z value and layer of the item
\* at the same index before
C12_RoundTrip ==
    [][LoadsBackConsolidated =>
          /\ Len(image_items') = Len(image_items)
          /\ \A k \in 1..Len(image_items) :
                Saved(items', image_items', k) = Saved(items, image_items, k)]_vars

\* two items loaded back from the asset folder, the first with the scale
\* 1/2 and the z value 3 of a hand-written record, the second where the
\* grid put it
C12_WitnessTwoLoadedBack ==
    /\ ev.type = "load"
    /\ ev.result = "loaded"
    /\ Len(image_items) = 2
    /\ \A k \in 1..2 : Tracked(k).path.dir = InFolder(current_save_path)
    /\ Tracked(1).z = 3
    /\ Tracked(1).current_scale = Rat(1, 2)
    /\ Tracked(2).pos = <<30, 0>>

\* the step is a Save Board command
SaveStep == ev'.type = "save"

\* C13: a Save Board command on a board with a clipboard item, whose prompt
\* for the save mode is cancelled, changes nothing: no directory and no file
\* is made or written, current_save_path and the items stay as they were
C13_CancelledPromptNoSideEffects ==
    [][SaveStep /\ ~ev'.consolidate /\ ClipboardItems # <<>>
          /\ ev'.clicked = "Cancelled"
       => /\ disk' = disk
          /\ current_save_path' = current_save_path
          /\ itemVars' = itemVars]_vars

\* the prompt cancelled on a board with a clipboard item and a path-backed
\* item, after an earlier save made the asset folder
C13_WitnessCancelledAfterSave ==
    /\ ev.type = "save"
    /\ ~ev.consolidate
    /\ ev.clicked = "Cancelled"
    /\ ev.result = "cancelled"
    /\ Len(ClipboardItems) = 1
    /\ Len(image_items) = 2
    /\ current_save_path # NoPath
    /\ Exists(disk, ImagesFolder(current_save_path))

\* the tracked items with a file behind them, in order
PathBacked == SelectSeq(image_items, LAMBDA i : items[i].path # ClipboardPath)

\* the records of the document a save has written
Written == disk'[ev'.file_path].data.images

\* the paths the step added to the file system
Added == DOMAIN disk' \ DOMAIN disk

\* the files the step wrote anew or changed, but for the document
Touched ==
    {p \in DOMAIN disk' \ {ev'.file_path} : p \notin DOMAIN disk \/ disk'[p] # disk[p]}

IsClipboardFile(p) ==
    /\ p.dir = InFolder(ev'.file_path)
    /\ Len(p.base) = 4
    /\ SubSeq(p.base, 1, 2) = <<"clipboard", "image">>

\* C14: a save in a mode that does not consolidate ('None' or
\* Ignore_Clipboard) leaves the clipboard items out and writes exactly one
\* record per path-backed item, in order, with the item's own path as
\* absolute_path; it makes no asset folder and copies no file.  A save in
\* the mode Consolidate_Clipboard_Only also records every path-backed item
\* with its own path and copies none of their files
C14_PathBackedRecordedInPlace ==
    [][SaveStep /\ ev'.result # "cancelled" =>
          /\ ev'.action \in {"None", "Ignore_Clipboard"} =>
                /\ Touched = {}
                /\ ev'.result = "saved" =>
                      /\ Len(Written) = Len(PathBacked)
                      /\ \A k \in 1..Len(PathBacked) :
                            Written[k].absolute_path = JStr(items[PathBacked[k]].path)
          /\ ev'.action = "Consolidate_Clipboard_Only" =>
                /\ \A p \in Touched : p = ImagesFolder(ev'.file_path) \/ IsClipboardFile(p)
                /\ ev'.result = "saved" =>
                      /\ Len(Written) = Len(image_items)
                      /\ \A k \in 1..Len(image_items) :
                            Tracked(k).path # ClipboardPath =>
                               Written[k].absolute_path = JStr(Tracked(k).path)]_vars

\* a board of a clipboard item followed by a path-backed one saved with
\* Ignore_Clipboard: one record, no asset folder
C14_WitnessIgnoreClipboard ==
    /\ ev.type = "save"
    /\ ev.result = "saved"
    /\ ev.action = "Ignore_Clipboard"
    /\ Len(image_items) = 2
    /\ Tracked(1).path = ClipboardPath
    /\ Len(disk[ev.file_path].data.images) = 1
    /\ ~Exists(disk, ImagesFolder(ev.file_path))

Consolidating == {"Consolidate_All", "Consolidate_Clipboard_Only"}

\* the bitmap of the clipboard item behind record r was not written: the
\* record names no file, or a file that is not there after the save
BitmapNotWritten(r) ==
    r.absolute_path.v = NoPath \/ ~ExistsPath(disk', r.absolute_path.v)

\* C15: in the document of a consolidating save, the record of a clipboard
\* item whose bitmap could not be written has the empty string as
\* absolute_path and null as path; and the document has as many records as
\* the board has tracked items
C15_FailedBitmapRecordedEmpty ==
    [][SaveStep /\ ev'.result = "saved" /\ ev'.action \in Consolidating =>
          /\ Len(Written) = Len(image_items)
          /\ \A k \in 1..Len(image_items) :
                Tracked(k).path = ClipboardPath /\ BitmapNotWritten(Written[k]) =>
                   /\ Written[k].absolute_path = JStr(NoPath)
                   /\ Written[k].path = JNull]_vars

\* a saved document whose record of a clipboard item names a file of the
\* asset folder that the save did not write
C15_WitnessRecordOfUnwrittenFile ==
    /\ ev.type = "save"
    /\ ev.result = "saved"
    /\ ev.action \in Consolidating
    /\ \E k \in 1..Len(image_items) :
          /\ Tracked(k).path = ClipboardPath
          /\ disk[ev.file_path].data.images[k].absolute_path.v.dir = InFolder(ev.file_path)
          /\ ~ExistsPath(disk, disk[ev.file_path].data.images[k].absolute_path.v)

\* the names save_board tries for a source named base: base, base_1, ...
Candidate(base, n) == IF n = 0 THEN base ELSE Append(base, ToString(n))

\* p is the first of the candidates for src that was free: it was not there
\* before the save, it is in the asset folder, and the candidates before it
\* are all taken
FirstFreeFor(p, src) ==
    /\ p.dir = InFolder(ev'.file_path)
    /\ p.ext = src.ext
    /\ p \notin DOMAIN disk
    /\ \E n \in 0..(MaxSaves * MaxBoardItems) :
          /\ p.base = Candidate(src.base, n)
          /\ \A m \in 0..(n - 1) :
                Path(p.dir, Candidate(src.base, m), p.ext) \in DOMAIN disk'

\* C16: a save in the mode Consolidate_All changes no file that was in the
\* asset folder before (but for the clipboard images it writes), and when it
\* completes, every path-backed item's record names a copy of the item's
\* file under the first of base, base_1, base_2, ... that was free; no two
\* items are recorded with the same path
C16_CopiesNeverOverwrite ==
    [][SaveStep /\ ev'.action = "Consolidate_All" /\ ev'.result # "cancelled" =>
          /\ \A p \in DOMAIN disk \ {ev'.file_path} :
                ~IsClipboardFile(p) => disk'[p] = disk[p]
          /\ ev'.result = "saved" =>
                /\ \A k \in 1..Len(image_items) :
                      Tracked(k).path # ClipboardPath =>
                         /\ FirstFreeFor(Written[k].absolute_path.v, Tracked(k).path)
                         /\ disk'[Written[k].absolute_path.v] = disk[Tracked(k).path]
                /\ \A j, k \in 1..Len(image_items) :
                      /\ j # k
                      /\ Tracked(j).path # ClipboardPath
                      /\ Tracked(k).path # ClipboardPath
                      => Written[j].absolute_path # Written[k].absolute_path]_vars

\* the second Consolidate_All save of two items named a.png: the copies of
\* the first save are a.png and a_1.png, those of the second a_2.png and
\* a_3.png
C16_WitnessFourCopies ==
    /\ ev.type = "save"
    /\ ev.result = "saved"
    /\ ev.action = "Consolidate_All"
    /\ Len(image_items) = 2
    /\ disk[ev.file_path].data.images[1].absolute_path.v.base = <<"a", "2">>
    /\ disk[ev.file_path].data.images[2].absolute_path.v.base = <<"a", "3">>
    /\ Tracked(1).path # Tracked(2).path

\* C17: when os.makedirs of the asset folder or a shutil.copy2 raises, the
\* save ends with an error: the document is as it was before (not there,
\* or unchanged), current_save_path keeps its value, nothing that was on
\* disk is gone, and the copies made before the failure are there, one for
\* every path-backed item before the one whose copy failed
C17_FailedSaveAborts ==
    [][SaveStep /\ ev'.raised.op \in {"mkdir", "copy"} =>
          /\ ev'.result = "error"
          /\ ev'.file_path \in DOMAIN disk' <=> ev'.file_path \in DOMAIN disk
          /\ ev'.file_path \in DOMAIN disk => disk'[ev'.file_path] = disk[ev'.file_path]
          /\ current_save_path' = current_save_path
          /\ DOMAIN disk \subseteq DOMAIN disk'
          /\ ev'.raised.op = "copy" =>
                \A k \in 1..(ev'.raised.at - 1) :
                   Tracked(k).path # ClipboardPath =>
                      \E p \in Added : /\ FirstFreeFor(p, Tracked(k).path)
                                       /\ disk'[p] = disk[Tracked(k).path]]_vars

\* the copy of the second item failed in a second save: the save before
\* left a.png and a_1.png, this one left a_2.png, and the target is the
\* document of the save before
C17_WitnessSecondCopyFailed ==
    /\ ev.type = "save"
    /\ ev.result = "error"
    /\ ev.raised = [op |-> "copy", at |-> 2]
    /\ current_save_path = ev.file_path
    /\ Path(InFolder(ev.file_path), <<"a", "2">>, ".png") \in DOMAIN disk
    /\ Path(InFolder(ev.file_path), <<"a", "3">>, ".png") \notin DOMAIN disk
    /\ Len(disk[ev.file_path].data.images) = 2

\* the step is a save or a load that completed
Completed == ev'.type \in {"save", "load"} /\ ev'.result \in {"saved", "loaded"}

\* C18: a save or load that completes leaves the document's path in
\* current_save_path; a save with a path in current_save_path shows no file
\* dialog and writes to that path; a save without one shows the dialog; and
\* current_save_path only changes by a load that completes or by a save that
\* completes when it held no path (so it holds none before the first
\* completed save or load)
C18_SavePathRemembered ==
    [][/\ Completed => current_save_path' = ev'.file_path
       /\ SaveStep /\ ev'.action # "Cancelled" =>
             /\ ev'.asked <=> current_save_path = NoPath
             /\ current_save_path # NoPath =>
                   /\ ev'.result # "cancelled"
                   /\ ev'.file_path = current_save_path
                   /\ ev'.result = "saved" =>
                         disk'[current_save_path] = TextEntry(BoardData(Written))
       /\ current_save_path' # current_save_path =>
             /\ Completed
             /\ ev'.type = "save" => current_save_path = NoPath]_vars

\* a save that wrote, unasked, to the document of a load that had replaced
\* the path of an earlier save
C18_WitnessSaveAfterLoadAfterSave ==
    /\ ev.type = "save"
    /\ ev.result = "saved"
    /\ ~ev.asked
    /\ ev.file_path = Path(Boards, <<"good">>, ".json")
    /\ current_save_path = ev.file_path
    /\ Exists(disk, Path(Boards, <<"one">>, ".json"))
    /\ Len(disk[ev.file_path].data.images) = 1

\* the step is a Load Board command with a file chosen
LoadStep == ev'.type = "load" /\ ev'.file_path # NoPath

\* the text of the chosen file, if it is one that can be read
ChosenText ==
    IF ~ev'.unreadable /\ ExistsPath(disk, ev'.file_path)
       /\ disk[Norm(ev'.file_path)].kind = "text"
    THEN disk[Norm(ev'.file_path)].data
    ELSE InvalidData

\* C19: a load of a file that cannot be read or is not JSON ends with an
\* error and leaves the items (with their positions, scales and z values),
\* the view and current_save_path as they were
C19_UnreadableLoadChangesNothing ==
    [][LoadStep /\ ChosenText.json = "invalid" =>
          /\ ev'.result = "error"
          /\ itemVars' = itemVars
          /\ viewVars' = viewVars
          /\ current_save_path' = current_save_path]_vars

\* a failed load of a text that is not JSON on a board that an earlier load
\* filled and fitted to the view
C19_WitnessBadFileOnLoadedBoard ==
    /\ ev.type = "load"
    /\ ev.result = "error"
    /\ ~ev.unreadable
    /\ ev.file_path = Path(Boards, <<"bad">>, ".json")
    /\ Len(image_items) = 1
    /\ Tracked(1).z = 3
    /\ m11 # NInt(1)
    /\ current_save_path = Path(Boards, <<"good">>, ".json")

\* the text is JSON but no board document: a JSON array, or a JSON object
\* whose list holds an element that is not an object
Malformed(data) ==
    \/ data.json = "array"
    \/ /\ data.json = "object"
       /\ \E k \in 1..Len(data.images) : ~data.images[k].object

\* C20: a load of a malformed document (JSON, but the top level is not an
\* object, or a record is not an object) ends with an error and the tracked
\* items after it are the tracked items before it
C20_MalformedLoadKeepsItems ==
    [][LoadStep /\ Malformed(ChosenText) /\ ev'.result = "error" =>
          /\ image_items' = image_items
          /\ items' = items
          /\ scene_items' = scene_items]_vars

\* after the failed load of the document whose second element is not an
\* object: the item that was on the board is gone and the item of the first
\* record is there
C20_WitnessHalfLoaded ==
    /\ ev.type = "load"
    /\ ev.result = "error"
    /\ ev.parsed
    /\ ev.file_path = Path(Boards, <<"mixed">>, ".json")
    /\ nextId = 3
    /\ image_items = <<2>>
    /\ Tracked(1).z = 3
    /\ current_save_path = NoPath

\* a record's relative path names a file under the document's directory
RelativeFound(d, dir, r) ==
    r.object /\ r.path.v # NoPath /\ ExistsPath(d, Join(dir, r.path.v))

\* a record's absolute path names a file
AbsoluteFound(d, r) ==
    r.object /\ r.absolute_path.v # NoPath /\ ExistsPath(d, r.absolute_path.v)

\* the records of a list that name a file one way or the other, in order
FoundRecords(d, dir, images) ==
    SelectSeq(images, LAMBDA r : RelativeFound(d, dir, r) \/ AbsoluteFound(d, r))

\* the records of a list that name no file, in order
LostRecords(d, dir, images) ==
    SelectSeq(images, LAMBDA r : r.object /\ ~RelativeFound(d, dir, r)
                                          /\ ~AbsoluteFound(d, r))

\* C21: after a load that parsed its document no item that was tracked or
\* in the scene before is tracked or in the scene, and the tracked items
\* are, in the order of their creation, the items of the document's records
\* that name a file, in the order of the document, with the position, scale,
\* z value and layer of their records: all of them if the load ran to its
\* end, the first of them if it was cancelled or ended with an error
C21_LoadReplaces ==
    [][LoadStep /\ ev'.parsed =>
          LET recs == FoundRecords(disk, ev'.file_path.dir, ChosenText.images)
              n == Len(image_items')
          IN  /\ SeqToSet(image_items') \cap (SeqToSet(image_items) \cup scene_items) = {}
              /\ scene_items' \cap SeqToSet(image_items) = {}
              /\ n <= Len(recs)
              /\ ev'.result = "loaded" /\ ~ev'.interrupted => n = Len(recs)
              /\ \A j, k \in 1..n : j < k => image_items'[j] < image_items'[k]
              /\ \A k \in 1..n :
                    LET it == items'[image_items'[k]]
                    IN  /\ it.pos = recs[k].position
                        /\ it.current_scale = recs[k].scale
                        /\ it.z = recs[k].z_value
                        /\ it.layer = recs[k].layer]_vars

\* the three-record document was loaded over a board of two dropped items:
\* the two items of its records are the board
C21_WitnessLoadedOverTwo ==
    /\ ev.type = "load"
    /\ ev.result = "loaded"
    /\ ~ev.interrupted
    /\ ev.file_path = Path(Boards, <<"good">>, ".json")
    /\ nextId = 5
    /\ image_items = <<3, 4>>
    /\ Tracked(1).pos = <<5, 5>>
    /\ Tracked(2).pos = <<7, 0>>

\* C22: in a load that ran to its end, a record whose relative path names a
\* file under the document's directory is loaded from there, any other
\* record whose absolute path names a file is loaded from that, and a record
\* of neither kind makes no item and is reported by its relative path (by
\* its absolute path if it has no relative one); the records after it are
\* loaded; one warning is shown if a record was reported and none otherwise.
\* The document of three records, one of them naming no file, makes two
\* items and a report of one entry
C22_MissingFilesReported ==
    [][LoadStep /\ ev'.result = "loaded" /\ ~ev'.interrupted =>
          LET dir == ev'.file_path.dir
              images == ChosenText.images
              found == FoundRecords(disk, dir, images)
              lost == LostRecords(disk, dir, images)
              warnings == {k \in DOMAIN ev'.messages : ev'.messages[k] = "warning"}
          IN  /\ Len(image_items') = Len(found)
              /\ \A k \in 1..Len(found) :
                    items'[image_items'[k]].path =
                       IF RelativeFound(disk, dir, found[k])
                       THEN Join(dir, found[k].path.v)
                       ELSE found[k].absolute_path.v
              /\ Len(ev'.missing) = Len(lost)
              /\ \A k \in 1..Len(lost) :
                    ev'.missing[k] = IF lost[k].path.v # NoPath THEN lost[k].path
                                     ELSE lost[k].absolute_path
              /\ Cardinality(warnings) = IF Len(lost) > 0 THEN 1 ELSE 0
              /\ Len(images) = 3 /\ Len(lost) = 1 =>
                    Len(image_items') = 2 /\ Len(ev'.missing) = 1]_vars

\* the document of three records was loaded: the first from its relative
\* path, the second reported, the third from its absolute path
C22_WitnessTwoOfThree ==
    /\ ev.type = "load"
    /\ ev.result = "loaded"
    /\ ~ev.interrupted
    /\ ev.file_path = Path(Boards, <<"good">>, ".json")
    /\ Len(image_items) = 2
    /\ Tracked(1).path = Join(Boards, RelPath(PicA, Boards))
    /\ Tracked(2).path = Path(Shots, <<"a">>, ".png")
    /\ ev.missing = <<JStr(Path(<<>>, <<"gone">>, ".png"))>>
    /\ ev.messages = <<"warning">>

DropStep == ev'.type = "drop"

\* the items a step added to image_items, in the order of their addition
Added_ == SubSeq(image_items', Len(image_items) + 1, Len(image_items'))

\* a step kept the items that were there, but for their positions, and
\* added its items behind them in image_items
KeptItems ==
    /\ Len(image_items') >= Len(image_items)
    /\ SubSeq(image_items', 1, Len(image_items)) = image_items
    /\ \A i \in DOMAIN items :
          i \in DOMAIN items' /\ [items'[i] EXCEPT !.pos = items[i].pos] = items[i]

\* the files of a sequence that are on disk and are no EXR files
PlainOnDisk(files) ==
    SelectSeq(files, LAMBDA f : Exists(disk, f.path) /\ Lower(f.ext) # ".exr")

\* C23: when a drop is cancelled before file c of its supported files, no
\* file from c on is imported, the items imported before (and those of the
\* board) stay, and updates are enabled afterwards; if none of the files is
\* an EXR file, the new items are those of the files before c that are on
\* disk, so that 20 images cancelled before the 6th make 5 new items
C23_CancelStopsBatch ==
    [][DropStep /\ ev'.stopped = "cancelled" =>
          LET c == ev'.stopped_at
              files_to_load == FilesToLoad(ev'.files)
              before == SubSeq(files_to_load, 1, c - 1)
          IN  /\ c \in 1..ev'.total
              /\ \A j \in DOMAIN ev'.created : ev'.created[j].k < c
              /\ KeptItems
              /\ Len(Added_) = Len(ev'.created)
              /\ \A j \in DOMAIN Added_ :
                    items'[Added_[j]].path = ev'.created[j].path
              /\ PlainOnDisk(files_to_load) = files_to_load =>
                    Len(Added_) = c - 1
              /\ updatesEnabled']_vars

\* 20 images were dropped and the import was cancelled before the 6th: 5
\* items, and updates (disabled during the import) are enabled
C23_WitnessFiveOfTwenty ==
    /\ ev.type = "drop"
    /\ ev.total = 20
    /\ ev.suspended
    /\ ev.stopped = "cancelled"
    /\ ev.stopped_at = 6
    /\ Len(image_items) = 5
    /\ updatesEnabled

\* C24: between the handlers updates are enabled, whichever way the last
\* drop or load ended (to its end, cancelled, with a file or record that
\* failed, or with an exception), and a drop of at most 10 supported files
\* has not disabled them
C24_UpdatesEnabledAfterEveryExit ==
    /\ updatesEnabled
    /\ ev.type = "drop" /\ ev.total <= 10 => ~ev.suspended

\* a drop of more than 10 files, which disabled updates, ended with an
\* exception after its first items
C24_WitnessRaisedInLargeBatch ==
    /\ ev.type = "drop"
    /\ ev.total > 10
    /\ ev.suspended
    /\ ev.stopped = "raised"
    /\ Len(image_items) > 0
    /\ updatesEnabled

\* the items a drop added are the ImageDisplay objects it made, in order
CreatedAreAdded ==
    /\ Len(Added_) = Len(ev'.created)
    /\ \A j \in DOMAIN Added_ : items'[Added_[j]].path = ev'.created[j].path

\* the files of the batch for which an ImageDisplay was made
CreatedFor == {ev'.created[j].k : j \in DOMAIN ev'.created}

\* the files of the batch for which a dialog was cancelled
CancelledFor ==
    {ev'.prompts[j].k :
        j \in {i \in DOMAIN ev'.prompts : ev'.prompts[i].layer = "None"}}

\* a file is on disk and holds an image
Decodes(f) == Exists(disk, f.path) /\ disk[f.path].kind = "image"

\* a drop that nobody cancels and in which the progress task does not raise
WholeDrop == DropStep /\ ev'.cancelAt = 0 /\ ev'.abortAt = 0 /\ ev'.total > 0

\* what C25 says of the files that are not on disk, of the files after a
\* failure, and of the cancelled dialogs: a file that is not on disk adds no
\* item; every file that holds an image and is no EXR file adds an item,
\* whatever happened to the files before it; a file for which a dialog was
\* cancelled adds no item, and every EXR file that holds an image and for
\* which no dialog was cancelled adds one
FailuresIsolated ==
    LET files_to_load == FilesToLoad(ev'.files)
    IN  /\ KeptItems
        /\ CreatedAreAdded
        /\ \A k \in 1..ev'.total :
              LET f == files_to_load[k]
              IN  /\ ~Exists(disk, f.path) => k \notin CreatedFor
                  /\ Decodes(f) /\ Lower(f.ext) # ".exr" => k \in CreatedFor
                  /\ k \in CancelledFor => k \notin CreatedFor
                  /\ Decodes(f) /\ Lower(f.ext) = ".exr" /\ k \notin CancelledFor
                        => k \in CreatedFor

\* C25 as it is stated: in a drop that is not cancelled, a file that is not
\* on disk or does not decode adds no item, every later supported file is
\* still imported, and a cancelled layer dialog skips only its file
C25_FailedFilesAddNoItem ==
    [][WholeDrop =>
          /\ FailuresIsolated
          /\ \A k \in 1..ev'.total :
                ~Decodes(FilesToLoad(ev'.files)[k]) => k \notin CreatedFor]_vars

\* what the code does instead: in a drop that is not cancelled, a file that
\* is not on disk adds no item, a file that is on disk but does not decode
\* adds an item that shows the 400 x 300 placeholder, every later supported
\* file is still imported, and a cancelled layer dialog skips only its file
PlaceholderForUndecodable ==
    [][WholeDrop =>
          /\ FailuresIsolated
          /\ \A j \in DOMAIN ev'.created :
                LET f == FilesToLoad(ev'.files)[ev'.created[j].k]
                    it == items'[Added_[j]]
                IN  /\ Exists(disk, f.path)
                    /\ ~Decodes(f) => it.w = 400 /\ it.h = 300
                    /\ Decodes(f) => it.w = f.w /\ it.h = f.h
          /\ \A k \in 1..ev'.total :
                LET f == FilesToLoad(ev'.files)[k]
                IN  Exists(disk, f.path) /\ ~Decodes(f) /\ Lower(f.ext) # ".exr"
                       => k \in CreatedFor]_vars

\* gone.png and broken.png were dropped: add_image raised for the first,
\* and the second is on the board as a placeholder
C25_WitnessGoneThenBroken ==
    /\ ev.type = "drop"
    /\ ev.files = <<FileGone, FileBroken>>
    /\ ev.failed = <<1>>
    /\ ev.stopped = "no"
    /\ Len(image_items) = 1
    /\ Tracked(1).path = FileBroken.path
    /\ Tracked(1).pw = 400
    /\ Tracked(1).ph = 300

\* the spellings of the supported extensions among the files of the model
SupportedSpellings ==
    {".jpg", ".jpeg", ".png", ".tif", ".tiff", ".bmp", ".exr", ".PNG", ".EXR"}

\* C26: the files of a drop that are imported are those whose extension,
\* in small or capital letters, is one of jpg, jpeg, png, tif, tiff, bmp,
\* exr; the others are reported, in the order of the drop, and the import
\* goes on: the ImageDisplay objects are made in the order of the dropped
\* files, and in a drop without EXR files that nobody cancels every
\* supported file that is on disk becomes an item, in dropped order
C26_UnsupportedFilesSkipped ==
    [][DropStep =>
          LET supported == SelectSeq(ev'.files,
                                     LAMBDA f : f.ext \in SupportedSpellings)
              others == SelectSeq(ev'.files,
                                  LAMBDA f : f.ext \notin SupportedSpellings)
          IN  /\ ev'.total = Len(supported)
              /\ ev'.reported = others
              /\ CreatedAreAdded
              /\ \A j \in DOMAIN ev'.created :
                    /\ ev'.created[j].k \in 1..Len(supported)
                    /\ ev'.created[j].path = supported[ev'.created[j].k].path
              /\ \A i, j \in DOMAIN ev'.created :
                    i < j => ev'.created[i].k < ev'.created[j].k
              /\ ev'.cancelAt = 0 /\ ev'.abortAt = 0
                 /\ (\A k \in DOMAIN supported : supported[k].ext \notin {".exr", ".EXR"})
                    => Len(Added_) = Len(PlainOnDisk(supported))]_vars

\* notes.txt and c.PNG were dropped: the text was reported, the image with
\* the extension in capitals is on the board
C26_WitnessTextThenCapitals ==
    /\ ev.type = "drop"
    /\ ev.files = <<FileNotes, FileC>>
    /\ ev.reported = <<FileNotes>>
    /\ ev.total = 1
    /\ Len(image_items) = 1
    /\ Tracked(1).path = FileC.path

\* C29: the count a drop prints at its end or when it is cancelled
\* (loaded_count of total_files) is the number of items the drop added to
\* the board
C29_CountIsItemsAdded ==
    [][DropStep /\ ev'.total > 0 /\ ev'.stopped # "raised" =>
          ev'.loaded_count = Len(image_items') - Len(image_items)]_vars

\* y.EXR was dropped, the dialog of dropEvent was accepted with the layer
\* rgba, the dialog of add_image was cancelled: no item, and a count of 1
C29_WitnessCountedNotAdded ==
    /\ ev.type = "drop"
    /\ ev.files = <<FileY>>
    /\ Len(ev.prompts) = 2
    /\ ev.prompts[1].by = "dropEvent"
    /\ ev.prompts[1].layer = "rgba"
    /\ ev.prompts[2].by = "add_image"
    /\ ev.prompts[2].layer = "None"
    /\ ev.loaded_count = 1
    /\ ev.total = 1
    /\ image_items = <<>>

\* the dialogs of a drop that were accepted with the check box checked
Applying == {i \in DOMAIN ev'.prompts : ev'.prompts[i].apply_all}

\* the EXR files among the supported files of a drop that are on disk and
\* have layers to choose from
ExrWithLayers ==
    LET files_to_load == FilesToLoad(ev'.files)
    IN  {k \in DOMAIN files_to_load :
            /\ files_to_load[k].ext \in {".exr", ".EXR"}
            /\ Exists(disk, files_to_load[k].path)
            /\ files_to_load[k].layers # {}}

\* after dialog i of a drop no dialog is shown for a later file, and every
\* later EXR file is imported with the layer and the format of dialog i
AppliedToRemaining(i) ==
    LET chosen == ev'.prompts[i]
    IN  /\ \A j \in DOMAIN ev'.prompts : ev'.prompts[j].k <= chosen.k
        /\ \A k \in ExrWithLayers :
              k > chosen.k =>
                 \E j \in DOMAIN ev'.created :
                    /\ ev'.created[j].k = k
                    /\ ev'.created[j].layer = chosen.layer
                    /\ ev'.created[j].fmt = chosen.fmt

\* C30: in a drop that nobody cancels, after a layer dialog accepted with
\* 'apply to all remaining' no dialog is shown for a later file and every
\* later EXR file is imported with the layer and format chosen there,
\* whichever layer that is; in a drop without such an answer exactly one
\* dialog is shown for every EXR file
C30_ApplyToAllRemaining ==
    [][WholeDrop =>
          /\ \A i \in Applying : AppliedToRemaining(i)
          /\ Applying = {} =>
                \A k \in ExrWithLayers :
                   Cardinality({j \in DOMAIN ev'.prompts : ev'.prompts[j].k = k}) = 1]_vars

\* what holds of the code: the same, for every layer but rgba
AppliedUnlessRgba ==
    [][WholeDrop =>
          /\ \A i \in Applying :
                ev'.prompts[i].layer # "rgba" => AppliedToRemaining(i)
          /\ Applying = {} =>
                \A k \in ExrWithLayers :
                   LET mine == {j \in DOMAIN ev'.prompts : ev'.prompts[j].k = k}
                   IN  /\ Cardinality(mine) \in {1, 2}
                       /\ Cardinality(mine) = 2 <=>
                             \E j \in mine : /\ ev'.prompts[j].by = "dropEvent"
                                             /\ ev'.prompts[j].layer = "rgba"]_vars

\* x.exr and y.EXR were dropped and the first dialog was accepted with the
\* layer rgba and the box checked: add_image showed a dialog for x.exr and
\* another for y.EXR
C30_WitnessAskedAgain ==
    /\ ev.type = "drop"
    /\ ev.files = <<FileX, FileY>>
    /\ Len(ev.prompts) = 3
    /\ ev.prompts[1].by = "dropEvent"
    /\ ev.prompts[1].layer = "rgba"
    /\ ev.prompts[1].apply_all
    /\ ev.prompts[2].k = 1
    /\ ev.prompts[2].by = "add_image"
    /\ ev.prompts[3].k = 2
    /\ ev.prompts[3].by = "add_image"

\* the handle of every item is visible exactly if the item is selected
HandleIffSelected ==
    \A i \in DOMAIN items : (items[i].handle = "visible") <=> items[i].selected

\* in a step, for every item that stays: a handle that exists goes on
\* existing; a handle comes into existence only when its item becomes
\* selected; and a handle that is hidden or shown keeps what it holds
HandleKept ==
    \A i \in DOMAIN items \cap DOMAIN items' :
       /\ items[i].handle # "none" => items'[i].handle # "none"
       /\ items[i].handle = "none" /\ items'[i].handle # "none"
             => ~items[i].selected /\ items'[i].selected
       /\ items[i].handle # "none" /\ items[i].selected # items'[i].selected
             => /\ items'[i].dragging = items[i].dragging
                /\ items'[i].start_pos = items[i].start_pos
                /\ items'[i].start_scale = items[i].start_scale

\* C27: in every reachable state the resize handle of an item is visible
\* if and only if the item is selected; the handle is made when its item is
\* first selected, is not deleted while the item lives, and is hidden on
\* deselection and shown again, with what it holds, on selection
C27_HandleVisibleIffSelected ==
    []HandleIffSelected /\ [][HandleKept]_vars

\* an item that was resized with its handle and then deselected: the handle
\* is hidden, and another item is selected
C27_WitnessHiddenAfterUse ==
    \E i, j \in DOMAIN items :
       /\ items[i].handle = "hidden"
       /\ ~items[i].selected
       /\ items[i].current_scale # RInt(1)
       /\ items[j].selected
       /\ items[j].handle = "visible"

\* C28: in every reachable state the scale of every item is a positive
\* number, whether it is that of the item's creation, of a Resize preset, of
\* a handle drag or of the record the item was loaded from
C28_ScalePositive ==
    \A i \in DOMAIN items : RLt(RInt(0), items[i].current_scale)

\* the document with a record of scale 0 was loaded: the second item has
\* the scale 0 and no extent
C28_WitnessScaleZeroLoaded ==
    /\ ev.type = "load"
    /\ ev.result = "loaded"
    /\ ev.file_path = Path(Boards, <<"shrunk">>, ".json")
    /\ Len(image_items) = 2
    /\ Tracked(2).current_scale = RInt(0)
    /\ Tracked(2).pw = 0
    /\ Tracked(2).ph = 0

\* every tracked item stands at the grid position of its index
AtGrid ==
    \A k \in 1..Len(image_items) :
        Tracked(k).pos = <<GridX(k), GridY(RowOf(k))>>

AllZ == {items[i].z : i \in DOMAIN items}

\* C32: bring_to_front gives every selected item the z-value of the highest
\* item plus 1, send_to_back that of the lowest item minus 1, so that the
\* selected items are strictly above (below) every unselected item; the
\* unselected items, every item's position, scale and other fields, and the
\* lists of items are as before; with nothing selected nothing changes
C32_RestackSelected ==
    [][ev'.type \in {"front", "back"} =>
          IF SelectedItems = {} THEN UNCHANGED itemVars
          ELSE LET z == IF ev'.type = "front" THEN MaxOf(AllZ) + 1
                        ELSE MinOf(AllZ) - 1
               IN  /\ UNCHANGED <<image_items, scene_items, nextId>>
                   /\ DOMAIN items' = DOMAIN items
                   /\ \A i \in SelectedItems :
                         /\ items'[i] = [items[i] EXCEPT !.z = z]
                         /\ \A j \in DOMAIN items \ SelectedItems :
                               IF ev'.type = "front"
                               THEN items'[i].z > items'[j].z
                               ELSE items'[i].z < items'[j].z
                   /\ \A j \in DOMAIN items \ SelectedItems :
                         items'[j] = items[j]]_vars

\* the second item of a row was sent behind an item that had been brought
\* to the front
C32_WitnessBehindRaisedItem ==
    /\ ev.type = "back"
    /\ \E i, j \in DOMAIN items :
          /\ items[i].selected /\ ~items[j].selected
          /\ items[j].z > 0
          /\ items[i].pos # <<0, 0>>
          /\ items[i].z < 0

\* the clipboard items before the k-th tracked item whose bitmap the save
\* wrote
WrittenBefore(k) ==
    {j \in 1..(k - 1) :
        Tracked(j).path = ClipboardPath /\ ~BitmapNotWritten(Written[j])}

\* C33: in the document of a consolidating save, the file name in the
\* record of a clipboard item ends in the number of clipboard bitmaps the
\* save wrote before it, plus 1: a bitmap that was not written takes no
\* number
C33_CounterAdvancesOnSuccess ==
    [][SaveStep /\ ev'.result = "saved" /\ ev'.action \in Consolidating =>
          \A k \in 1..Len(image_items) :
              Tracked(k).path = ClipboardPath /\ Written[k].absolute_path.v # NoPath
              => Written[k].absolute_path.v.base[4]
                    = ToString(Cardinality(WrittenBefore(k)) + 1)]_vars

\* two clipboard items were saved, the bitmap of the first was not written,
\* and the file of the second has the number 2
C33_WitnessSecondNumberedTwo ==
    /\ ev.type = "save"
    /\ ev.result = "saved"
    /\ ev.action \in Consolidating
    /\ Len(image_items) = 2
    /\ Tracked(1).path = ClipboardPath
    /\ Tracked(2).path = ClipboardPath
    /\ LET images == disk[ev.file_path].data.images
       IN  /\ \/ images[1].absolute_path.v = NoPath
              \/ ~ExistsPath(disk, images[1].absolute_path.v)
           /\ ExistsPath(disk, images[2].absolute_path.v)
           /\ images[2].absolute_path.v.base[4] = "2"
           /\ ~\E p \in DOMAIN disk :
                  p.dir = InFolder(ev.file_path) /\ Len(p.base) = 4 /\ p.base[4] = "1"

\* C34: a load that runs through all its records leaves as many items on
\* the board and entries in the report, taken together, as the document has
\* records: each record gives one item or one entry
C34_OneOutcomePerRecord ==
    [][LoadStep /\ ev'.result = "loaded" /\ ~ev'.interrupted =>
          Len(image_items') + Len(ev'.missing)
             = Len(disk[ev'.file_path].data.images)]_vars

\* the document with a record that names no file and a record without a
\* position was loaded: one item as ImageDisplay made it, and two entries
C34_WitnessItemAndEntry ==
    /\ ev.type = "load"
    /\ ev.result = "loaded"
    /\ ~ev.interrupted
    /\ ev.file_path = Path(Boards, <<"torn">>, ".json")
    /\ Len(image_items) = 1
    /\ Tracked(1).path = FileC.path
    /\ Tracked(1).pos = <<0, 0>>
    /\ Tracked(1).current_scale = RInt(1)
    /\ Len(ev.missing) = 2
    /\ ev.missing[2] = Failed(RecordNowhere)

\* C35: image_items names no item twice and names exactly the items of
\* the scene, so every selected item is tracked and bring_to_front and
\* send_to_back take their maximum and minimum over a list that is not empty
C35_TrackedAreSceneItems ==
    /\ \A j, k \in 1..Len(image_items) : image_items[j] = image_items[k] => j = k
    /\ SeqToSet(image_items) = scene_items
    /\ SelectedItems \subseteq SeqToSet(image_items)
    /\ SelectedItems # {} => TrackedZ # {}

\* the item of a loaded board was deleted and the dropped one, made second,
\* is left
C35_WitnessDroppedLeft ==
    /\ ev.type = "delete"
    /\ current_save_path # NoPath
    /\ image_items = <<2>>
    /\ scene_items = {2}
    /\ items[2].path = PicA
    /\ nextId = 3

\* C36: in every state scale_factor is the uniform scale of the view
\* transform, after wheel events (clamped or not), pans and fits, so that a
\* pan divides by the zoom the view has
C36_ScaleFactorIsViewScale ==
    scale_factor = m11

\* a fit left the zoom above max_scale and a wheel event was corrected by
\* the clamp: both the view and scale_factor are at max_scale
C36_WitnessClampedAfterFit ==
    /\ ev.type = "wheel"
    /\ ev.clamped
    /\ MonoLt(max_scale, ev.zoom0)
    /\ m11 = max_scale
    /\ scale_factor = max_scale

\* C37: a save command, forced or not, in every mode and whether it is
\* cancelled, fails or completes, leaves the items, their list and the
\* scene as they were, so a clipboard item stays one; and a save that is
\* not forced, on a board with a clipboard item, takes its mode from the
\* prompt each time
C37_SaveLeavesCanvas ==
    [][SaveStep =>
          /\ UNCHANGED itemVars
          /\ ~ev'.consolidate /\ ClipboardItems # <<>> => ev'.action = ev'.clicked]_vars

\* after a save that consolidated the bitmap of a clipboard item, a second
\* save asked for the mode again and took Ignore_Clipboard
C37_WitnessAskedAfterConsolidation ==
    /\ ev.type = "save"
    /\ ~ev.consolidate
    /\ ev.result = "saved"
    /\ ev.action = "Ignore_Clipboard"
    /\ ~ev.asked
    /\ Len(ClipboardItems) = 1
    /\ \E p \in DOMAIN disk :
          /\ p.dir = InFolder(ev.file_path)
          /\ Len(p.base) = 4
          /\ SubSeq(p.base, 1, 2) = <<"clipboard", "image">>

\* C38: clear_all_images and delete_selected_images leave current_save_path,
\* the files and the zoom of the view as they were; and Save Board on an
\* empty board with a remembered document shows no prompt and no file
\* dialog and, unless writing the file fails, writes that document with no
\* record
C38_ClearKeepsDocumentAndZoom ==
    /\ [][ev'.type \in {"clear", "delete"} =>
             UNCHANGED <<current_save_path, disk, scale_factor, m11>>]_vars
    /\ [][SaveStep /\ image_items = <<>> /\ current_save_path # NoPath =>
             /\ ~ev'.asked
             /\ ev'.action = "None"
             /\ ev'.file_path = current_save_path
             /\ ev'.raised = NoFault =>
                   ev'.result = "saved" /\ Written = <<>>
             /\ current_save_path' = current_save_path]_vars

\* a board with an item was saved and cleared, and saved again: the
\* document, written without a file dialog, has no record
C38_WitnessEmptyDocument ==
    /\ ev.type = "save"
    /\ ev.result = "saved"
    /\ ~ev.asked
    /\ nMenu = 2
    /\ nextId > 1
    /\ image_items = <<>>
    /\ ev.file_path = current_save_path
    /\ disk[current_save_path].data.images = <<>>

====
